---- MODULE Spec2Model ----
(***************************************************************************)
(* A model of the trading scanner's core: the persistence layer            *)
(* (app/db/queries.py), the trade state machine                            *)
(* (app/core/state_machine/trade_state_machine.py), the H4 strategy's gate *)
(* (app/core/strategy/h4_fvg_strategy.py), the SL/TP estimator             *)
(* (app/core/sl_tp/sl_tp_estimator.py) and the per-symbol scan             *)
(* (app/services/scanner_service.py).                                      *)
(*                                                                         *)
(* Prices are integers (ticks).  The input sets are chosen so that every   *)
(* product with 0.98, 1.02, 1.5 and 2.5 that the estimator takes is an     *)
(* integer: entries are multiples of 50, ATR values multiples of 4.        *)
(*                                                                         *)
(* Spec is the scanner process with the callers of the persistence layer   *)
(* beside it, SpecMachine the state machine and the persistence layer      *)
(* driven call by call, SpecStrategy the strategy's evaluate_new_signal    *)
(* called with contexts in any order, SpecEstimate and SpecAdjust one call *)
(* of estimate_for_new_signal and of evaluate_adjustment, SpecCheck one    *)
(* call of check_and_update_trade or evaluate_open_trade.  In Spec the     *)
(* scanner runs over any MarketDataProvider: the frames its get_candles    *)
(* calls return are inputs.  SpecCache is the yfinance provider            *)
(* (app/data/yfinance_provider.py) called directly, SpecCycle              *)
(* run_scan_cycle with scan_symbol running over that provider.             *)
(***************************************************************************)
EXTENDS Integers, Sequences, FiniteSets, TLC

(* ------------------------------ bounds -------------------------------- *)

\* Rows the trades table may hold.
MaxTrades == 2
\* Rows the signals table may hold.
MaxSignals == 2
\* Largest H4 candle timestamp a scan sees.
MaxTs == 1
\* Largest H4 candle timestamp of a context handed to evaluate_new_signal.
MaxCallTs == 2
\* Largest distance between the entry and the stop handed to
\* evaluate_adjustment, and between the entry and the current price.
MaxSlDistance == 2
MaxMove == 5
\* Rows each table may hold when the state machine is driven directly.
MaxMachineRows == 1

(* --------------------------- Python values ---------------------------- *)

\* Python's None / SQL NULL in a numeric or datetime column (prices and
\* times are never negative).
None == 0 - 1
\* Python's None / SQL NULL in a string column.
NoneStr == "None"

\* bool(x) of an Optional[float]: None and 0 are falsy.
Truthy(x) == x # None /\ x # 0
\* bool(s) of an Optional[str]: None and "" are falsy.
TruthyStr(s) == s # NoneStr /\ s # ""

Abs(x) == IF x < 0 THEN 0 - x ELSE x

(* -------------------- str.upper() and str.replace() -------------------- *)

LowerCase == <<"a", "b", "c", "d", "e", "i", "l", "m", "n", "o", "p", "r",
               "s", "t", "u", "x", "y">>
UpperCase == <<"A", "B", "C", "D", "E", "I", "L", "M", "N", "O", "P", "R",
               "S", "T", "U", "X", "Y">>

\* str.upper() on one character.
UpperChar(c) ==
    IF \E i \in DOMAIN LowerCase : LowerCase[i] = c
    THEN UpperCase[CHOOSE i \in DOMAIN LowerCase : LowerCase[i] = c]
    ELSE c

\* str.upper() on a string, given as its sequence of characters.
Upper(s) == [i \in DOMAIN s |-> UpperChar(s[i])]

\* s.startswith(old) at offset 0.
StartsWith(s, old) ==
    /\ Len(s) >= Len(old)
    /\ SubSeq(s, 1, Len(old)) = old

\* s.replace(old, new): every non-overlapping occurrence, left to right.
RECURSIVE Replace(_, _, _)
Replace(s, old, new) ==
    IF s = <<>> THEN <<>>
    ELSE IF StartsWith(s, old)
         THEN new \o Replace(SubSeq(s, Len(old) + 1, Len(s)), old, new)
         ELSE <<Head(s)>> \o Replace(Tail(s), old, new)

(* ------------------------------ TradeState ----------------------------- *)

\* The values of the TradeState enumeration.
TradeStateValues == {"Open", "ClosedByTp", "ClosedBySl", "ClosedManual", "Expired"}

\* The characters of a state value (TradeUpdateAction.new_state is a str).
Spell(v) ==
    CASE v = "Open" -> <<"O", "p", "e", "n">>
      [] v = "ClosedByTp" -> <<"C", "l", "o", "s", "e", "d", "B", "y", "T", "p">>
      [] v = "ClosedBySl" -> <<"C", "l", "o", "s", "e", "d", "B", "y", "S", "l">>
      [] v = "ClosedManual" ->
            <<"C", "l", "o", "s", "e", "d", "M", "a", "n", "u", "a", "l">>
      [] v = "Expired" -> <<"E", "x", "p", "i", "r", "e", "d">>
      [] OTHER -> <<>>

\* The member names of the TradeState enumeration, each with its value.
TradeStateMembers ==
    { [name |-> <<"O", "P", "E", "N">>, value |-> "Open"],
      [name |-> <<"C", "L", "O", "S", "E", "D", "_", "B", "Y", "_", "T", "P">>,
       value |-> "ClosedByTp"],
      [name |-> <<"C", "L", "O", "S", "E", "D", "_", "B", "Y", "_", "S", "L">>,
       value |-> "ClosedBySl"],
      [name |-> <<"C", "L", "O", "S", "E", "D", "_", "M", "A", "N", "U", "A", "L">>,
       value |-> "ClosedManual"],
      [name |-> <<"E", "X", "P", "I", "R", "E", "D">>, value |-> "Expired"] }

\* The key apply_action looks up:
\* action.new_state.upper().replace("CLOSED", "CLOSED_").
StateKey(new_state) ==
    Replace(Upper(Spell(new_state)),
            <<"C", "L", "O", "S", "E", "D">>,
            <<"C", "L", "O", "S", "E", "D", "_">>)

\* TradeState[key]: the member of that name, or "KeyError" when there is none.
TradeStateByName(key) ==
    IF \E m \in TradeStateMembers : m.name = key
    THEN (CHOOSE m \in TradeStateMembers : m.name = key).value
    ELSE "KeyError"

\* TradeState[new_state.upper().replace("CLOSED", "CLOSED_")] for each state
\* value an action may name.
ResolvedState == [v \in TradeStateValues |-> TradeStateByName(StateKey(v))]

(* ------------------------------- inputs -------------------------------- *)

\* The configured symbols (aliases).
Aliases == {"US30", "NAS100"}
Directions == {"buy", "sell"}
\* The values datetime.utcnow() takes.
Times == {1}

(* -------------------------------- state -------------------------------- *)

VARIABLES
    signals,            \* the signals table: row i has id i
    trades,             \* the trades table: row i has id i
    closed_trades,      \* TradeStateMachine._closed_trades
    last_h4_timestamp,  \* H4FvgStrategy.last_h4_timestamp, alias -> ts or None
    emitted,            \* history: the (alias, H4 timestamp) pairs that got a signal
    ret,                \* what the last operation returned, raised and sent
    call,               \* the arguments of a call of an estimator function
    cache,              \* YFinanceMarketDataProvider._cache, (symbol, interval) -> frame
    last_fetch,         \* YFinanceMarketDataProvider._last_fetch, (symbol, interval) -> time
    pending,            \* the symbols run_scan_cycle has still to scan in its loop
    scanner             \* a SimpleScanner: its running flag and where its run() task is

vars == <<signals, trades, closed_trades, last_h4_timestamp, emitted, ret, call,
          cache, last_fetch, pending, scanner>>

\* SimpleScanner.__init__: running is False; the task of run() does not
\* exist yet, nobody asked it to stop or cancelled it, no cycle was made.
NewSimpleScanner ==
    [running |-> FALSE, pc |-> "idle", i |-> 0, cancelling |-> FALSE,
     stopped |-> FALSE, cancelled |-> FALSE, cycles |-> 0]

(* --------------------------- persistence layer ------------------------- *)

\* create_signal: the row gets the next id.
create_signal(sigs, symbol_alias, direction, entry_price_at_signal, initial_sl, initial_tp) ==
    Append(sigs, [id |-> Len(sigs) + 1,
                  symbol_alias |-> symbol_alias,
                  direction |-> direction,
                  entry_price_at_signal |-> entry_price_at_signal,
                  initial_sl |-> initial_sl,
                  initial_tp |-> initial_tp])

\* The foreign key trades.signal_id -> signals.id: the only constraint the
\* schema puts on signal_id (no unique constraint).
ForeignKeyOk(sigs, signal_id) == signal_id \in DOMAIN sigs

\* create_trade: a row in state Open with its close fields NULL.
create_trade(trs, signal_id, symbol_alias, direction, actual_entry_price, stop_loss, take_profit) ==
    Append(trs, [id |-> Len(trs) + 1,
                 signal_id |-> signal_id,
                 symbol_alias |-> symbol_alias,
                 direction |-> direction,
                 actual_entry_price |-> actual_entry_price,
                 stop_loss |-> stop_loss,
                 take_profit |-> take_profit,
                 state |-> "Open",
                 close_time_utc |-> None,
                 close_price |-> None,
                 close_reason |-> NoneStr])

\* get_open_trades(db, symbol_alias): the ids, in table order.
get_open_trades(trs, symbol_alias) ==
    SelectSeq([i \in DOMAIN trs |-> i],
              LAMBDA i : /\ trs[i].state = "Open"
                         /\ trs[i].symbol_alias = symbol_alias)

\* get_closed_trades(db, symbol_alias, direction): the ids.
get_closed_trades(trs, symbol_alias, direction) ==
    { i \in DOMAIN trs : /\ trs[i].state # "Open"
                         /\ trs[i].symbol_alias = symbol_alias
                         /\ trs[i].direction = direction }

\* An update that finds no row of the id and changes nothing, without raising.
UpdateOfMissingRowIgnored(trs, trade_id, new_state, close_time_utc, close_price, close_reason) ==
    IF trade_id \notin DOMAIN trs
    THEN [raised |-> "", trades |-> trs]
    ELSE [raised |-> "",
          trades |-> [trs EXCEPT ![trade_id] = [@ EXCEPT !.state = new_state]]]

\* update_trade_state: raises ValueError for an unknown id; otherwise sets the
\* state, and each close field that is given (truthy, or not None for the
\* price).
update_trade_state(trs, trade_id, new_state, close_time_utc, close_price, close_reason) ==
    IF trade_id \notin DOMAIN trs
    THEN [raised |-> "ValueError", trades |-> trs]
    ELSE [raised |-> "",
          trades |->
            [trs EXCEPT ![trade_id] =
                [@ EXCEPT
                   !.state = new_state,
                   !.close_time_utc =
                       IF Truthy(close_time_utc) THEN close_time_utc ELSE @,
                   !.close_price =
                       IF close_price # None THEN close_price ELSE @,
                   !.close_reason =
                       IF TruthyStr(close_reason) THEN close_reason ELSE @]]]

\* update_trade_sl_tp: raises ValueError for an unknown id; otherwise sets
\* the stop and the target that are given.
update_trade_sl_tp(trs, trade_id, new_sl, new_tp) ==
    IF trade_id \notin DOMAIN trs
    THEN [raised |-> "ValueError", trades |-> trs]
    ELSE [raised |-> "",
          trades |->
            [trs EXCEPT ![trade_id] =
                [@ EXCEPT
                   !.stop_loss = IF new_sl # None THEN new_sl ELSE @,
                   !.take_profit = IF new_tp # None THEN new_tp ELSE @]]]

(* --------------------------- TradeUpdateAction ------------------------- *)

\* TradeUpdateAction(action_type, ...) with the dataclass's defaults.
TradeUpdateAction(action_type, new_state, new_sl, new_tp, close_reason, close_price) ==
    [action_type |-> action_type, new_state |-> new_state, new_sl |-> new_sl,
     new_tp |-> new_tp, close_reason |-> close_reason,
     close_price |-> close_price]

\* A method returning None instead of an action.
NoAction == TradeUpdateAction("None", NoneStr, None, None, NoneStr, None)

(* --------------------------- trade state machine ----------------------- *)

\* check_and_update_trade without its guard on the persisted state.
AlreadyClosedIgnored(trade) == FALSE

\* check_and_update_trade's early return: a trade that is not Open.
AlreadyClosed(trade) == trade.state # "Open"

\* An SL test that needs the candle to go beyond the stop.
SlHitStrict(direction, stop_loss, candle_high, candle_low) ==
    IF direction = "buy" THEN candle_low < stop_loss
                         ELSE candle_high > stop_loss

\* check_and_update_trade's SL test.
SlHit(direction, stop_loss, candle_high, candle_low) ==
    IF direction = "buy" THEN candle_low <= stop_loss
                         ELSE candle_high >= stop_loss

\* check_and_update_trade's TP test.
TpHit(direction, take_profit, candle_high, candle_low) ==
    IF direction = "buy" THEN candle_high >= take_profit
                         ELSE candle_low <= take_profit

\* check_and_update_trade: the action it returns and the closed set after it.
check_and_update_trade(closed, trade, candle_high, candle_low) ==
    IF AlreadyClosed(trade)
    THEN [action |-> NoAction, closed_trades |-> closed \cup {trade.id}]
    ELSE IF SlHit(trade.direction, trade.stop_loss, candle_high, candle_low)
    THEN [action |-> TradeUpdateAction("close_by_sl", "ClosedBySl", None, None,
                                       "Stop loss hit", trade.stop_loss),
          closed_trades |-> closed]
    ELSE IF TpHit(trade.direction, trade.take_profit, candle_high, candle_low)
    THEN [action |-> TradeUpdateAction("close_by_tp", "ClosedByTp", None, None,
                                       "Take profit hit", trade.take_profit),
          closed_trades |-> closed]
    ELSE [action |-> NoAction, closed_trades |-> closed]

\* apply_action: what it raises ("" when it returns), and the trades table
\* and the closed set after it.
apply_action(trs, closed, trade_id, action, now) ==
    IF action.action_type \in {"close_by_tp", "close_by_sl", "close_manual"}
    THEN LET new_state_enum == ResolvedState[action.new_state]
         IN  IF new_state_enum = "KeyError"
             THEN [raised |-> "KeyError", trades |-> trs,
                   closed_trades |-> closed]
             ELSE LET upd == update_trade_state(trs, trade_id, new_state_enum,
                                 now, action.close_price, action.close_reason)
                  IN  IF upd.raised # ""
                      THEN [raised |-> upd.raised, trades |-> trs,
                            closed_trades |-> closed]
                      ELSE [raised |-> "", trades |-> upd.trades,
                            closed_trades |-> closed \cup {trade_id}]
    ELSE IF action.action_type = "update_sl_tp"
    THEN LET upd == update_trade_sl_tp(trs, trade_id, action.new_sl,
                                       action.new_tp)
         IN  [raised |-> upd.raised, trades |-> upd.trades,
              closed_trades |-> closed]
    ELSE [raised |-> "ValueError", trades |-> trs, closed_trades |-> closed]

\* is_trade_closed.
is_trade_closed(closed, trade_id) == trade_id \in closed

\* should_send_tp_notification.
should_send_tp_notification(closed, trade_id, new_state) ==
    new_state = "ClosedByTp" /\ trade_id \notin closed

(* --------------------------- MAE/MFE statistics ------------------------ *)

\* sorted(): insertion of one value into an ascending sequence.
RECURSIVE Insert(_, _)
Insert(sorted, x) ==
    IF sorted = <<>> THEN <<x>>
    ELSE IF x <= Head(sorted) THEN <<x>> \o sorted
         ELSE <<Head(sorted)>> \o Insert(Tail(sorted), x)

\* sorted(values).
RECURSIVE Sorted(_)
Sorted(values) ==
    IF values = <<>> THEN <<>> ELSE Insert(Sorted(Tail(values)), Head(values))

\* statistics.median: the middle value, or the mean of the two middle ones.
Median(values) ==
    LET s == Sorted(values)
        n == Len(s)
    IN  IF n % 2 = 1 THEN s[(n + 1) \div 2]
        ELSE (s[n \div 2] + s[n \div 2 + 1]) \div 2

\* The profit get_mae_mfe_stats takes for one closed trade.
Pnl(trade, direction) ==
    IF direction = "buy" THEN trade.close_price - trade.actual_entry_price
                         ELSE trade.actual_entry_price - trade.close_price

\* get_mae_mfe_stats(...)['median_mfe']: None without closed trades or
\* without a favourable one; a trade counts when its close and entry prices
\* are truthy, and as favourable when its profit is not negative.
MedianMfe(trs, symbol_alias, direction) ==
    LET closed == get_closed_trades(trs, symbol_alias, direction)
        counted == SelectSeq([i \in DOMAIN trs |-> i],
                       LAMBDA i : /\ i \in closed
                                  /\ Truthy(trs[i].close_price)
                                  /\ Truthy(trs[i].actual_entry_price)
                                  /\ Pnl(trs[i], direction) >= 0)
        mfes == [k \in DOMAIN counted |-> Pnl(trs[counted[k]], direction)]
    IN  IF closed = {} \/ mfes = <<>> THEN None ELSE Median(mfes)

(* ------------------------------ SL/TP estimator ------------------------ *)

\* min(values) and max(values) of a non-empty set.
Min(S) == CHOOSE x \in S : \A y \in S : x <= y
Max(S) == CHOOSE x \in S : \A y \in S : x >= y

\* The values of a list, as a set.
Range(seq) == { seq[i] : i \in DOMAIN seq }

\* entry * 0.98 and entry * 1.02: the fallback swing levels.
FallbackLow(entry_price) == (entry_price * 98) \div 100
FallbackHigh(entry_price) == (entry_price * 102) \div 100

\* avg_atr * atr_multiplier_sl with avg_atr = (h4_atr + h1_atr) / 2 and
\* atr_multiplier_sl = 1.5.
SlBuffer(h4_atr, h1_atr) == ((h4_atr + h1_atr) * 3) \div 4
\* avg_atr * atr_multiplier_tp with atr_multiplier_tp = 2.5.
TpDistance(h4_atr, h1_atr) == ((h4_atr + h1_atr) * 5) \div 4

\* The swing level the stop is put beyond.
NearestSwing(direction, entry_price, swing_highs, swing_lows) ==
    IF direction = "buy"
    THEN LET below == { s \in Range(swing_lows) : s < entry_price }
         IN  IF below # {} THEN Min(below) ELSE FallbackLow(entry_price)
    ELSE LET above == { s \in Range(swing_highs) : s > entry_price }
         IN  IF above # {} THEN Max(above) ELSE FallbackHigh(entry_price)

\* The distance from the entry to the target: the median MFE when it is
\* truthy, the ATR multiple otherwise.
TpOffset(median_mfe, h4_atr, h1_atr) ==
    IF Truthy(median_mfe) THEN median_mfe ELSE TpDistance(h4_atr, h1_atr)

\* estimate_for_new_signal: (sl_price, tp_price).
estimate_for_new_signal(ctx, median_mfe) ==
    LET nearest_swing == NearestSwing(ctx.direction, ctx.entry_price,
                                      ctx.recent_swing_highs,
                                      ctx.recent_swing_lows)
        buffer == SlBuffer(ctx.h4_atr, ctx.h1_atr)
        offset == TpOffset(median_mfe, ctx.h4_atr, ctx.h1_atr)
    IN  IF ctx.direction = "buy"
        THEN [sl |-> nearest_swing - buffer, tp |-> ctx.entry_price + offset]
        ELSE [sl |-> nearest_swing + buffer, tp |-> ctx.entry_price - offset]

\* SlTpAdjustment(action, new_sl, new_tp, reason).
SlTpAdjustment(action, new_sl, new_tp, reason) ==
    [action |-> action, new_sl |-> new_sl, new_tp |-> new_tp,
     reason |-> reason]

\* evaluate_adjustment returning None.
NoAdjustment == SlTpAdjustment("None", None, None, NoneStr)

\* profit_in_r >= n: the comparison evaluate_adjustment does not make.
ProfitInRAtLeast(ctx, n) ==
    LET sl_distance == Abs(ctx.entry_price - ctx.current_sl)
        current_profit == Abs(ctx.current_price - ctx.entry_price)
    IN  sl_distance > 0 /\ current_profit >= n * sl_distance

\* profit_in_r > n, with profit_in_r = current_profit / sl_distance when
\* sl_distance > 0 and 0 otherwise.
ProfitInRAbove(ctx, n) ==
    LET sl_distance == Abs(ctx.entry_price - ctx.current_sl)
        current_profit == Abs(ctx.current_price - ctx.entry_price)
    IN  sl_distance > 0 /\ current_profit > n * sl_distance

\* timedelta(days=7), in hours.
TimeStopHours == 7 * 24

\* A trail two ATR away from the current price.
TrailingSlTwoAtr(ctx) ==
    IF ctx.direction = "buy" THEN ctx.current_price - 2 * ctx.h4_atr
                             ELSE ctx.current_price + 2 * ctx.h4_atr

\* trailing_sl: the current price less (buy) or plus (sell) the last H4 ATR
\* times 1.0.
TrailingSl(ctx) ==
    IF ctx.direction = "buy" THEN ctx.current_price - ctx.h4_atr
                             ELSE ctx.current_price + ctx.h4_atr

\* An evaluate_adjustment that does not compare the new stop with the
\* current one.
AdjustmentUnguarded(ctx) ==
    IF ProfitInRAbove(ctx, 2)
    THEN SlTpAdjustment("move_sl", TrailingSl(ctx), None, "Trail SL (2R profit)")
    ELSE IF ProfitInRAbove(ctx, 1)
    THEN SlTpAdjustment("move_sl", ctx.entry_price, None,
                        "Move SL to breakeven (1R profit)")
    ELSE IF ctx.open_duration > TimeStopHours
    THEN SlTpAdjustment("close_early", None, None, "Trade open > 7 days")
    ELSE NoAdjustment

\* evaluate_adjustment: breakeven, then trail, then the time stop.
evaluate_adjustment(ctx) ==
    LET breakeven ==
            /\ ProfitInRAbove(ctx, 1)
            /\ \/ ctx.direction = "buy" /\ ctx.current_sl < ctx.entry_price
               \/ ctx.direction = "sell" /\ ctx.current_sl > ctx.entry_price
        trailing_sl == TrailingSl(ctx)
        trail ==
            /\ ProfitInRAbove(ctx, 2)
            /\ IF ctx.direction = "buy" THEN trailing_sl > ctx.current_sl
                                        ELSE trailing_sl < ctx.current_sl
    IN  IF breakeven
        THEN SlTpAdjustment("move_sl", ctx.entry_price, None,
                            "Move SL to breakeven (1R profit)")
        ELSE IF trail
        THEN SlTpAdjustment("move_sl", trailing_sl, None,
                            "Trail SL (2R profit)")
        ELSE IF ctx.open_duration > TimeStopHours
        THEN SlTpAdjustment("close_early", None, None, "Trade open > 7 days")
        ELSE NoAdjustment

(* ------------------------------- strategy ------------------------------ *)

\* The Signal dataclass (the fields the scan persists).
Signal(symbol_alias, direction, entry_price_at_signal, initial_sl, initial_tp) ==
    [symbol_alias |-> symbol_alias, direction |-> direction,
     entry_price_at_signal |-> entry_price_at_signal,
     initial_sl |-> initial_sl, initial_tp |-> initial_tp]

\* evaluate_new_signal returning None.
NoSignal == Signal(NoneStr, NoneStr, None, None, None)

\* _has_h4_candle_closed without its store: the stored timestamp stays.
KeptH4Timestamp(last_timestamp, current_h4_timestamp) == last_timestamp

\* The timestamp _has_h4_candle_closed stores for the alias: the context's
\* last H4 timestamp, whatever the stored one is.
StoredH4Timestamp(last_timestamp, current_h4_timestamp) == current_h4_timestamp

\* A gate that also opens for the timestamp it has stored.
AdvancedOrSame(last_timestamp, current_h4_timestamp) ==
    last_timestamp = None \/ current_h4_timestamp >= last_timestamp

\* The test of _has_h4_candle_closed: the first timestamp seen for the
\* alias, or one later than the stored one.
Advanced(last_timestamp, current_h4_timestamp) ==
    last_timestamp = None \/ current_h4_timestamp > last_timestamp

\* _has_h4_candle_closed: its verdict and the strategy's map after it.  An
\* empty H4 series (h4_timestamp = None) changes nothing.
has_h4_candle_closed(last, ctx) ==
    IF ctx.h4_timestamp = None
    THEN [closed |-> FALSE, last_h4_timestamp |-> last]
    ELSE LET last_timestamp == last[ctx.alias]
         IN  [closed |-> Advanced(last_timestamp, ctx.h4_timestamp),
              last_h4_timestamp |->
                  [last EXCEPT ![ctx.alias] =
                      StoredH4Timestamp(last_timestamp, ctx.h4_timestamp)]]

\* _generate_signal: the entry is the current price, the stop and the target
\* come from the estimator with the median MFE of the closed trades.
generate_signal(trs, ctx, bias) ==
    LET signal_ctx == [direction |-> bias,
                       entry_price |-> ctx.current_price,
                       h4_atr |-> ctx.h4_atr,
                       h1_atr |-> ctx.h1_atr,
                       recent_swing_highs |-> ctx.swing_highs,
                       recent_swing_lows |-> ctx.swing_lows]
        est == estimate_for_new_signal(signal_ctx,
                                       MedianMfe(trs, ctx.alias, bias))
    IN  Signal(ctx.alias, bias, ctx.current_price, est.sl, est.tp)

\* evaluate_new_signal: the gate, then the bias of the H4 FVGs and order
\* blocks (ctx.bias, None when there is none), the structure and the entry
\* confirmations (ctx.structure_confirmed, ctx.entry_confirmed), then the
\* signal.
evaluate_new_signal(last, trs, ctx) ==
    LET gate == has_h4_candle_closed(last, ctx)
    IN  [last_h4_timestamp |-> gate.last_h4_timestamp,
         signal |->
            IF ~gate.closed THEN NoSignal
            ELSE IF ctx.bias = NoneStr THEN NoSignal
            ELSE IF ~ctx.structure_confirmed THEN NoSignal
            ELSE IF ~ctx.entry_confirmed THEN NoSignal
            ELSE generate_signal(trs, ctx, ctx.bias)]

\* open_duration=timedelta(hours=1), the value evaluate_open_trade passes.
SimplifiedOpenDuration == 1

\* evaluate_open_trade's translation of an adjustment into an action.
TranslateAdjustment(adjustment) ==
    TradeUpdateAction(
        IF adjustment.action # "close_early" THEN "update_sl_tp"
                                             ELSE "close_manual",
        IF adjustment.action = "close_early" THEN "ClosedManual" ELSE NoneStr,
        adjustment.new_sl,
        adjustment.new_tp,
        IF adjustment.action = "close_early" THEN adjustment.reason
                                             ELSE NoneStr,
        None)

\* evaluate_open_trade: SL first, then TP, then the estimator's adjustment.
evaluate_open_trade(ctx) ==
    IF SlHit(ctx.direction, ctx.current_sl, ctx.candle_high, ctx.candle_low)
    THEN TradeUpdateAction("close_by_sl", "ClosedBySl", None, None,
                           "Stop loss hit", ctx.current_sl)
    ELSE IF TpHit(ctx.direction, ctx.current_tp, ctx.candle_high, ctx.candle_low)
    THEN TradeUpdateAction("close_by_tp", "ClosedByTp", None, None,
                           "Take profit hit", ctx.current_tp)
    ELSE LET adjustment ==
                 evaluate_adjustment(
                     [direction |-> ctx.direction,
                      entry_price |-> ctx.entry_price,
                      current_price |-> ctx.current_price,
                      current_sl |-> ctx.current_sl,
                      h4_atr |-> ctx.h4_atr,
                      open_duration |-> SimplifiedOpenDuration])
         IN  IF adjustment # NoAdjustment
             THEN TranslateAdjustment(adjustment)
             ELSE NoAction

(* --------------------------------- scan -------------------------------- *)

\* An alert handed to the notification service.
Alert(kind, id, close_type) == [kind |-> kind, id |-> id, close_type |-> close_type]

\* The alert scan_symbol sends after apply_action returned.
AlertFor(trade_id, action) ==
    IF action.action_type = "close_by_tp" THEN <<Alert("close", trade_id, "tp")>>
    ELSE IF action.action_type = "close_by_sl" THEN <<Alert("close", trade_id, "sl")>>
    ELSE IF action.action_type = "update_sl_tp" THEN <<Alert("update", trade_id, NoneStr)>>
    ELSE <<>>

\* A step of scan_symbol that came back: the call made and the trade or the
\* timeframe it was made for.
Event(ev, id) == [ev |-> ev, id |-> id]

\* The states of the notification transport during a pass.
Transports == {"up", "down"}

\* A _send_message that lets the transport's exception out.
SendMessageRaising(transport) ==
    [raised |-> IF transport = "up" THEN "" ELSE "ClientError",
     delivered |-> IF transport = "up" THEN 1 ELSE 0]

\* _send_message: the post to the transport; what the transport raises is
\* logged and kept in.
send_message(transport) ==
    [raised |-> "", delivered |-> IF transport = "up" THEN 1 ELSE 0]

\* The name of the TelegramService method that sends an alert.
SendMethod(alert) ==
    IF alert.kind = "signal" THEN "send_signal_alert"
    ELSE IF alert.kind = "close" THEN "send_close_alert"
    ELSE "send_update_alert"

\* scan_symbol's loop over the open trades: each trade is checked, an action
\* is applied and then announced; what apply_action or the alert raises
\* leaves the loop.  st carries the trades table, the closed set, the checks
\* made (trade, its state, the action returned), the alerts handed to the
\* notification service, how many of them the transport took, the steps
\* that came back and the exception raised.  ScanOpenTrades checks the next
\* trade, ScanChecked goes on from the check, ScanApplied from apply_action,
\* ScanAnnounced from the alert.
RECURSIVE ScanOpenTrades(_, _, _, _)
RECURSIVE ScanChecked(_, _, _, _, _, _)
RECURSIVE ScanApplied(_, _, _, _, _, _, _)
RECURSIVE ScanAnnounced(_, _, _, _, _, _)
ScanAnnounced(open_trades, st, ctx, transport, alert, sent) ==
    IF alert = <<>>
    THEN ScanOpenTrades(Tail(open_trades), st, ctx, transport)
    ELSE IF sent.raised # ""
    THEN [st EXCEPT !.alerts = @ \o alert, !.raised = sent.raised]
    ELSE ScanOpenTrades(Tail(open_trades),
             [st EXCEPT !.alerts = @ \o alert,
                        !.delivered = @ + sent.delivered,
                        !.log = Append(@, Event(SendMethod(alert[1]), alert[1].id))],
             ctx, transport)

ScanApplied(open_trades, st, ctx, transport, trade, chk, app) ==
    IF app.raised # ""
    THEN [st EXCEPT !.closed_trades = app.closed_trades,
                    !.raised = app.raised]
    ELSE ScanAnnounced(open_trades,
             [st EXCEPT !.trades = app.trades,
                        !.closed_trades = app.closed_trades,
                        !.log = Append(@, Event("apply_action", trade.id))],
             ctx, transport, AlertFor(trade.id, chk.action),
             send_message(transport))

ScanChecked(open_trades, st, ctx, transport, trade, chk) ==
    IF chk.action = NoAction
    THEN ScanOpenTrades(Tail(open_trades),
             [st EXCEPT !.closed_trades = chk.closed_trades], ctx, transport)
    ELSE ScanApplied(open_trades, st, ctx, transport, trade, chk,
                     apply_action(st.trades, chk.closed_trades, trade.id,
                                  chk.action, ctx.now_utc))

ScanOpenTrades(open_trades, st, ctx, transport) ==
    IF open_trades = <<>> THEN st
    ELSE ScanChecked(open_trades,
             [st EXCEPT !.checks =
                            Append(@, [trade_id |-> Head(open_trades),
                                       state |-> st.trades[Head(open_trades)].state,
                                       action_type |->
                                           check_and_update_trade(
                                               st.closed_trades,
                                               st.trades[Head(open_trades)],
                                               ctx.candle_high,
                                               ctx.candle_low).action.action_type]),
                        !.log = Append(@, Event("check_and_update_trade",
                                                Head(open_trades)))],
             ctx, transport, st.trades[Head(open_trades)],
             check_and_update_trade(st.closed_trades, st.trades[Head(open_trades)],
                                    ctx.candle_high, ctx.candle_low))

\* A loop over the trades that were open before the signal was evaluated.
OpenTradesBeforeSignal(before, after, alias) == get_open_trades(before, alias)

\* The trades the loop of scan_symbol walks: get_open_trades is called after
\* the signal and its trade were persisted (before: the table at the start
\* of the pass, after: the table when the loop starts).
OpenTradesOfPass(before, after, alias) == get_open_trades(after, alias)

\* The end of a pass: the time of the scan is recorded unless something was
\* raised.  loop is the state the loop over the open trades left.
ScanLooped(ev, sigs1, signal_id, loop) ==
    [signals |-> sigs1, trades |-> loop.trades,
     closed_trades |-> loop.closed_trades,
     last_h4_timestamp |-> ev.last_h4_timestamp,
     signal_id |-> signal_id,
     checks |-> loop.checks, alerts |-> loop.alerts,
     delivered |-> loop.delivered,
     log |-> IF loop.raised = "" THEN Append(loop.log, Event("last_scan", None))
                                 ELSE loop.log,
     raised |-> loop.raised]

\* The state a pass enters its loop with.
LoopStart(trs, closed, alerts, delivered, log, raised) ==
    [trades |-> trs, closed_trades |-> closed, checks |-> <<>>,
     alerts |-> alerts, delivered |-> delivered, log |-> log,
     raised |-> raised]

\* The steps of a pass that persisted a signal and its trade.
Persisted(sigs1, trs1) ==
    <<Event("evaluate_new_signal", None), Event("create_signal", Len(sigs1)),
      Event("create_trade", Len(trs1))>>

\* scan_symbol once the signal and its trade are persisted and the signal
\* alert was sent: what the alert raises ends the pass, otherwise the loop
\* over the open trades runs.
ScanTraded(ev, sigs1, trs, trs1, closed, ctx, transport, sent) ==
    IF sent.raised # ""
    THEN ScanLooped(ev, sigs1, Len(sigs1),
             LoopStart(trs1, closed, <<Alert("signal", Len(sigs1), NoneStr)>>,
                       sent.delivered, Persisted(sigs1, trs1), sent.raised))
    ELSE ScanLooped(ev, sigs1, Len(sigs1),
             ScanOpenTrades(OpenTradesOfPass(trs, trs1, ctx.alias),
                 LoopStart(trs1, closed, <<Alert("signal", Len(sigs1), NoneStr)>>,
                           sent.delivered,
                           Append(Persisted(sigs1, trs1),
                                  Event("send_signal_alert", Len(sigs1))),
                           ""),
                 ctx, transport))

\* scan_symbol once create_signal returned: create_trade, then the alert.
ScanSignalled(ev, sigs1, trs, closed, ctx, transport) ==
    ScanTraded(ev, sigs1, trs,
               create_trade(trs, Len(sigs1), ev.signal.symbol_alias,
                            ev.signal.direction, ev.signal.entry_price_at_signal,
                            ev.signal.initial_sl, ev.signal.initial_tp),
               closed, ctx, transport, send_message(transport))

\* scan_symbol once evaluate_new_signal returned: without a signal the loop
\* over the open trades runs at once, with one the signal is persisted.
ScanEvaluated(ev, sigs, trs, closed, ctx, transport) ==
    IF ev.signal = NoSignal
    THEN ScanLooped(ev, sigs, None,
             ScanOpenTrades(OpenTradesOfPass(trs, trs, ctx.alias),
                 LoopStart(trs, closed, <<>>, 0,
                           <<Event("evaluate_new_signal", None)>>, ""),
                 ctx, transport))
    ELSE ScanSignalled(ev,
             create_signal(sigs, ev.signal.symbol_alias, ev.signal.direction,
                           ev.signal.entry_price_at_signal,
                           ev.signal.initial_sl, ev.signal.initial_tp),
             trs, closed, ctx, transport)

\* scan_symbol after the six timeframes were fetched: the new signal with
\* its trade and its alert, then the open trades of the symbol, then the
\* record of the scan time.
ScanFetched(sigs, trs, closed, last, ctx, transport) ==
    ScanEvaluated(evaluate_new_signal(last, trs, ctx), sigs, trs, closed, ctx,
                  transport)

(* ----------------------------- error handling -------------------------- *)

\* What a handler of ErrorHandler did with an exception: the levels it was
\* logged at, the row appended to error_logs and the error alerts handed to
\* the notification service.
Handling(handler, levels, error_log, error_alerts) ==
    [handler |-> handler, levels |-> levels, error_log |-> error_log,
     error_alerts |-> error_alerts]

\* A row of error_logs.
ErrorLog(component, severity, exception_type, symbol_alias) ==
    [component |-> component, severity |-> severity,
     exception_type |-> exception_type, symbol_alias |-> symbol_alias]

\* No exception, no handler.
NoHandling == Handling(NoneStr, {}, ErrorLog(NoneStr, NoneStr, NoneStr, NoneStr), 0)

\* handle_runtime_error: logged at ERROR, an error alert is sent, a row of
\* severity ERROR is appended to error_logs.
RuntimeErrorHandling(component, error, symbol) ==
    Handling("handle_runtime_error", {"ERROR"},
             ErrorLog(component, "ERROR", error, symbol), 1)

\* handle_data_error: logged at WARNING, a row of severity WARNING is
\* appended to error_logs for the component DataProvider; no alert is sent.
DataErrorHandling(symbol, error) ==
    Handling("handle_data_error", {"WARNING"},
             ErrorLog("DataProvider", "WARNING", error, symbol), 0)

\* The except clause of scan_symbol: whatever the pass raised is logged at
\* ERROR and handed to handle_data_error.
ScanExcept(alias, raised) ==
    IF raised = "" THEN NoHandling
    ELSE [DataErrorHandling(alias, raised) EXCEPT !.levels = @ \cup {"ERROR"}]

(* ------------------------------ input sets ----------------------------- *)

\* The last H1 candle a scan observes; its close is the current price.
Candles ==
    { [high |-> 100, low |-> 100, close |-> 100],
      [high |-> 112, low |-> 100, close |-> 100],
      [high |-> 100, low |-> 88, close |-> 100] }

\* The last ATR(14) values of the H4 and H1 series a scan observes.
ScanAtrs == {4}

\* What steps 2 to 4 of evaluate_new_signal find in a context: the bias
\* _determine_bias returns (None: no FVG or order block, or no clear bias),
\* and whether the structure and the entry are confirmed.
Setups ==
    { [bias |-> NoneStr, structure_confirmed |-> TRUE, entry_confirmed |-> TRUE],
      [bias |-> "buy", structure_confirmed |-> TRUE, entry_confirmed |-> TRUE],
      [bias |-> "sell", structure_confirmed |-> TRUE, entry_confirmed |-> TRUE],
      [bias |-> "buy", structure_confirmed |-> FALSE, entry_confirmed |-> TRUE],
      [bias |-> "sell", structure_confirmed |-> TRUE, entry_confirmed |-> FALSE] }

\* The six get_candles calls of scan_symbol, in the order of the code, with
\* their lookbacks in days.
ScanIntervals ==
    << [interval |-> "240m", lookback |-> 30],
       [interval |-> "60m", lookback |-> 14],
       [interval |-> "30m", lookback |-> 7],
       [interval |-> "15m", lookback |-> 7],
       [interval |-> "5m", lookback |-> 3],
       [interval |-> "1m", lookback |-> 1] >>

\* The steps of a pass whose six get_candles calls returned.
Fetched == [k \in 1 .. Len(ScanIntervals) |-> Event("get_candles", k)]

\* The MultiTimeframeContext of a scan (no H4 swing point).
ScanContext(alias, h4_timestamp, setup, candle, atr, now_utc) ==
    [alias |-> alias, h4_timestamp |-> h4_timestamp, bias |-> setup.bias,
     structure_confirmed |-> setup.structure_confirmed,
     entry_confirmed |-> setup.entry_confirmed,
     current_price |-> candle.close, candle_high |-> candle.high,
     candle_low |-> candle.low, h4_atr |-> atr, h1_atr |-> atr,
     swing_highs |-> <<>>, swing_lows |-> <<>>, now_utc |-> now_utc]

\* The entry, stop and target a caller of create_signal and create_trade
\* passes: those of a signal at 100 with both ATRs at 4 and no history.
CallerPrices(direction) ==
    LET est == estimate_for_new_signal(
                   [direction |-> direction, entry_price |-> 100,
                    h4_atr |-> 4, h1_atr |-> 4,
                    recent_swing_highs |-> <<>>, recent_swing_lows |-> <<>>],
                   None)
    IN  [entry |-> 100, sl |-> est.sl, tp |-> est.tp]

\* A trade row that is in no table: what a caller holds for an unknown id.
DetachedTrade(trade_id) ==
    [id |-> trade_id, signal_id |-> 1, symbol_alias |-> "US30",
     direction |-> "buy", actual_entry_price |-> CallerPrices("buy").entry,
     stop_loss |-> CallerPrices("buy").sl,
     take_profit |-> CallerPrices("buy").tp, state |-> "Open",
     close_time_utc |-> None, close_price |-> None, close_reason |-> NoneStr]

\* The adjustments evaluate_adjustment returns for a trade at the prices and
\* durations a caller sees.
AdjustmentInputs(trade) ==
    { evaluate_adjustment(
          [direction |-> trade.direction,
           entry_price |-> trade.actual_entry_price,
           current_price |-> p,
           current_sl |-> trade.stop_loss,
           h4_atr |-> 4,
           open_duration |-> d]) :
        p \in {100, 112}, d \in {SimplifiedOpenDuration, TimeStopHours + 1} }

\* The actions a caller of apply_action holds for a trade: those
\* check_and_update_trade returns for an open trade, those
\* evaluate_open_trade builds from an adjustment, None, and an action of
\* the type "none".
ActionInputs(trade) ==
    { check_and_update_trade({}, [trade EXCEPT !.state = "Open"],
                             c.high, c.low).action : c \in Candles }
    \cup
    { TranslateAdjustment(a) : a \in AdjustmentInputs(trade) \ {NoAdjustment} }
    \cup
    { TradeUpdateAction("none", NoneStr, None, None, NoneStr, None) }

(* -------------------------------- actions ------------------------------ *)

\* The process after construction: empty tables, a TradeStateMachine with
\* an empty _closed_trades, a strategy with an empty _last_h4_timestamp.
Init ==
    /\ signals = <<>>
    /\ trades = <<>>
    /\ closed_trades = {}
    /\ last_h4_timestamp = [a \in Aliases |-> None]
    /\ emitted = {}
    /\ ret = [op |-> "init"]
    /\ call = [fn |-> "none"]
    /\ cache = [key \in {} |-> <<>>]
    /\ last_fetch = [key \in {} |-> 0]
    /\ pending = <<>>
    /\ scanner = NewSimpleScanner

\* One pass of scan_symbol whose six get_candles calls return.  What the
\* rest of the pass raises is caught by the handler and ends the pass.
ScanSymbol ==
    \E alias \in Aliases, candle \in Candles, h4_timestamp \in 1 .. MaxTs,
       setup \in Setups, atr \in ScanAtrs, now_utc \in Times,
       transport \in Transports :
        \* the H4 cache only grows: its last timestamp never goes back
        /\ h4_timestamp >= last_h4_timestamp[alias]
        /\ \E r \in { ScanFetched(signals, trades, closed_trades, last_h4_timestamp,
                                   ScanContext(alias, h4_timestamp, setup, candle, atr, now_utc),
                                   transport) } :
               /\ Len(r.signals) <= MaxSignals
               /\ Len(r.trades) <= MaxTrades
               /\ signals' = r.signals
               /\ trades' = r.trades
               /\ closed_trades' = r.closed_trades
               /\ last_h4_timestamp' = r.last_h4_timestamp
               /\ emitted' = IF r.signal_id # None
                             THEN emitted \cup {<<alias, h4_timestamp>>}
                             ELSE emitted
               /\ ret' = [op |-> "scan_symbol", alias |-> alias,
                          candle_high |-> candle.high,
                          candle_low |-> candle.low,
                          raised |-> r.raised,
                          signal_id |-> r.signal_id,
                          checks |-> r.checks, alerts |-> r.alerts,
                          delivered |-> r.delivered,
                          log |-> Fetched \o r.log,
                          handled |-> ScanExcept(alias, r.raised)]
        /\ UNCHANGED <<call, cache, last_fetch, pending, scanner>>

\* One pass of scan_symbol in which a get_candles call raises: the handler
\* catches it before anything else is done.
ScanSymbolFetchFails ==
    \E alias \in Aliases, calls \in 0 .. Len(ScanIntervals) - 1 :
        /\ ret' = [op |-> "scan_symbol", alias |-> alias,
                   candle_high |-> None, candle_low |-> None,
                   raised |-> "DataFetchError", signal_id |-> None,
                   checks |-> <<>>, alerts |-> <<>>, delivered |-> 0,
                   log |-> SubSeq(Fetched, 1, calls),
                   handled |-> ScanExcept(alias, "DataFetchError")]
        /\ UNCHANGED <<signals, trades, closed_trades, last_h4_timestamp, emitted, call, cache, last_fetch, pending, scanner>>

\* A call of create_trade for a signal id, with the signal's values; the
\* foreign key refuses an id the signals table does not hold.
CreateTrade ==
    \E signal_id \in 1 .. MaxSignals :
        /\ Len(trades) < MaxTrades
        /\ IF ForeignKeyOk(signals, signal_id)
           THEN LET s == signals[signal_id]
                IN  /\ trades' = create_trade(trades, signal_id, s.symbol_alias, s.direction, s.entry_price_at_signal, s.initial_sl, s.initial_tp)
                    /\ ret' = [op |-> "create_trade", raised |-> "",
                               trade_id |-> Len(trades) + 1]
           ELSE /\ trades' = trades
                /\ ret' = [op |-> "create_trade",
                           raised |-> "IntegrityError", trade_id |-> None]
        /\ UNCHANGED <<signals, closed_trades, last_h4_timestamp, emitted, call, cache, last_fetch, pending, scanner>>

\* A call of update_trade_state that closes a trade of the table with every
\* close argument given.
CloseTrade ==
    \E trade_id \in DOMAIN trades, new_state \in TradeStateValues \ {"Open"},
       now_utc \in Times :
        LET upd == update_trade_state(trades, trade_id, new_state, now_utc,
                                      trades[trade_id].take_profit,
                                      "Manual close")
        IN  /\ trades' = upd.trades
            /\ ret' = [op |-> "update_trade_state", trade_id |-> trade_id,
                       raised |-> upd.raised]
            /\ UNCHANGED <<signals, closed_trades, last_h4_timestamp, emitted, call, cache, last_fetch, pending, scanner>>

\* A call of check_and_update_trade on a row of the trades table.
CheckAndUpdateTrade ==
    \E trade_id \in DOMAIN trades, candle \in Candles :
        LET chk == check_and_update_trade(closed_trades, trades[trade_id],
                                          candle.high, candle.low)
        IN  /\ closed_trades' = chk.closed_trades
            /\ ret' = [op |-> "check_and_update_trade", trade_id |-> trade_id,
                       candle_high |-> candle.high, candle_low |-> candle.low,
                       action |-> chk.action]
            /\ UNCHANGED <<signals, trades, last_h4_timestamp, emitted, call, cache, last_fetch, pending, scanner>>

\* The scanner process and the callers of the persistence layer beside it.
Next ==
    \/ ScanSymbol
    \/ ScanSymbolFetchFails
    \/ CreateTrade
    \/ CloseTrade
    \/ CheckAndUpdateTrade

Spec == Init /\ [][Next]_vars

(* ------------------------- claims on the scanner ----------------------- *)

\* The last H1 candle of the scan or check ret reports crosses the trade's
\* take profit and not its stop loss.
TpOnlyCrossed(trade, r) ==
    /\ ~SlHit(trade.direction, trade.stop_loss, r.candle_high, r.candle_low)
    /\ TpHit(trade.direction, trade.take_profit, r.candle_high, r.candle_low)

\* The last H1 candle of the scan ret reports crosses the trade's stop loss.
SlCrossed(trade, r) ==
    SlHit(trade.direction, trade.stop_loss, r.candle_high, r.candle_low)

\* C1: once a trade's persisted state is not Open, no later scan cycle and
\* no later check_and_update_trade returns close_by_tp for it, and no later
\* scan sends a TP close alert for it.
ClosedTradeNeverTpAgain ==
    [][\A t \in DOMAIN trades :
          trades[t].state # "Open" =>
              /\ (ret'.op = "check_and_update_trade" /\ ret'.trade_id = t)
                     => ret'.action.action_type # "close_by_tp"
              /\ ret'.op = "scan_symbol"
                     => /\ \A i \in DOMAIN ret'.checks :
                               ret'.checks[i].trade_id = t
                                   => ret'.checks[i].action_type # "close_by_tp"
                        /\ Alert("close", t, "tp") \notin Range(ret'.alerts)]_vars

\* C1's case: a scan of a symbol that holds a trade closed before the scan,
\* with a last H1 candle that crosses the trade's take profit.
ClosedTradeScannedAtTp ==
    /\ ret.op = "scan_symbol"
    /\ ret.raised = ""
    /\ \E t \in DOMAIN trades :
           /\ trades[t].state # "Open"
           /\ trades[t].symbol_alias = ret.alias
           /\ TpOnlyCrossed(trades[t], ret)

\* C3: a scan persists an open trade whose stop loss the last H1 candle
\* crosses as ClosedBySl at the stop loss and sends the 'sl' alert; one whose
\* take profit (and not stop loss) is crossed as ClosedByTp at the take
\* profit with the 'tp' alert, in the same cycle.
ScanClosesCrossedTrades ==
    [][(ret'.op = "scan_symbol" /\ ret'.raised # "DataFetchError") =>
          \A t \in DOMAIN trades :
              (trades[t].state = "Open" /\ trades[t].symbol_alias = ret'.alias) =>
                  /\ SlCrossed(trades[t], ret') =>
                         /\ trades'[t].state = "ClosedBySl"
                         /\ trades'[t].close_price = trades[t].stop_loss
                         /\ Alert("close", t, "sl") \in Range(ret'.alerts)
                  /\ TpOnlyCrossed(trades[t], ret') =>
                         /\ trades'[t].state = "ClosedByTp"
                         /\ trades'[t].close_price = trades[t].take_profit
                         /\ Alert("close", t, "tp") \in Range(ret'.alerts)]_vars

\* C6: every trade's signal_id names a row of the signals table, and no
\* signal is named by more than one trade.
SignalTradeOneToOne ==
    /\ \A t \in DOMAIN trades : trades[t].signal_id \in DOMAIN signals
    /\ \A t1, t2 \in DOMAIN trades :
           t1 # t2 => trades[t1].signal_id # trades[t2].signal_id

(* ---------------- the state machine and persistence API ---------------- *)

\* A call of create_signal.
CreateSignal ==
    \E direction \in Directions :
        LET p == CallerPrices(direction)
        IN  /\ Len(signals) < MaxMachineRows
            /\ signals' = create_signal(signals, "US30", direction, p.entry, p.sl, p.tp)
            /\ ret' = [op |-> "create_signal", signal_id |-> Len(signals) + 1]
            /\ UNCHANGED <<trades, closed_trades, last_h4_timestamp, emitted, call, cache, last_fetch, pending, scanner>>

\* A call of update_trade_state, with its close arguments left out or given.
UpdateTradeState ==
    \E trade_id \in 1 .. MaxTrades, new_state \in TradeStateValues,
       given \in BOOLEAN, now_utc \in Times :
        LET trade == IF trade_id \in DOMAIN trades THEN trades[trade_id]
                     ELSE DetachedTrade(trade_id)
            upd == IF given
                   THEN update_trade_state(trades, trade_id, new_state, now_utc,
                                           trade.take_profit, "Manual close")
                   ELSE update_trade_state(trades, trade_id, new_state, None,
                                           None, NoneStr)
        IN  /\ trades' = upd.trades
            /\ ret' = [op |-> "update_trade_state", trade_id |-> trade_id,
                       raised |-> upd.raised]
            /\ UNCHANGED <<signals, closed_trades, last_h4_timestamp, emitted, call, cache, last_fetch, pending, scanner>>

\* A call of apply_action.
ApplyAction ==
    \E trade_id \in 1 .. MaxTrades, now_utc \in Times :
        LET trade == IF trade_id \in DOMAIN trades THEN trades[trade_id]
                     ELSE DetachedTrade(trade_id)
        IN  \E action \in ActionInputs(trade) :
                LET app == apply_action(trades, closed_trades, trade_id, action, now_utc)
                IN  /\ trades' = app.trades
                    /\ closed_trades' = app.closed_trades
                    /\ ret' = [op |-> "apply_action", trade_id |-> trade_id,
                               action |-> action, now_utc |-> now_utc,
                               raised |-> app.raised]
                    /\ UNCHANGED <<signals, last_h4_timestamp, emitted, call, cache, last_fetch, pending, scanner>>

\* A call of create_trade while the trades table is below MaxMachineRows.
CreateMachineTrade ==
    /\ Len(trades) < MaxMachineRows
    /\ CreateTrade

\* The process starts again: a TradeStateMachine is constructed over the
\* database as it is, with an empty _closed_trades.
NewTradeStateMachine ==
    /\ closed_trades' = {}
    /\ ret' = [op |-> "__init__"]
    /\ UNCHANGED <<signals, trades, last_h4_timestamp, emitted, call, cache, last_fetch, pending, scanner>>

\* The callers of the state machine and of the persistence layer.
NextMachine ==
    \/ CreateSignal
    \/ CreateMachineTrade
    \/ UpdateTradeState
    \/ ApplyAction
    \/ CheckAndUpdateTrade
    \/ NewTradeStateMachine

SpecMachine == Init /\ [][NextMachine]_vars

(* ----------------------- claims on the state machine ------------------- *)

\* C2: a trade only moves from Open to ClosedByTp, ClosedBySl, ClosedManual
\* or Expired; a trade that is not Open keeps its state over every call of
\* apply_action and update_trade_state.
ClosedStateIsTerminal ==
    [][\A t \in DOMAIN trades :
          trades[t].state # "Open" => trades'[t].state = trades[t].state]_vars

\* C4: apply_action with a close action on a trade of the table resolves the
\* action's new_state to the TradeState member of that value, sets the
\* state, the close time, the close price and the close reason, and records
\* the trade id in the closed set.
CloseActionApplied ==
    (/\ ret.op = "apply_action"
     /\ ret.action.action_type \in {"close_by_tp", "close_by_sl", "close_manual"}
     /\ ret.trade_id \in DOMAIN trades) =>
        /\ ret.raised = ""
        /\ trades[ret.trade_id].state = ret.action.new_state
        /\ trades[ret.trade_id].close_time_utc = ret.now_utc
        /\ trades[ret.trade_id].close_price = ret.action.close_price
        /\ trades[ret.trade_id].close_reason = ret.action.close_reason
        /\ ret.trade_id \in closed_trades

\* C5: a trade's close time, close price and close reason are all NULL
\* while it is Open and all set once it is not.
CloseFieldsMatchState ==
    \A t \in DOMAIN trades :
        IF trades[t].state = "Open"
        THEN /\ trades[t].close_time_utc = None
             /\ trades[t].close_price = None
             /\ trades[t].close_reason = NoneStr
        ELSE /\ trades[t].close_time_utc # None
             /\ trades[t].close_price # None
             /\ trades[t].close_reason # NoneStr

(* ------------------------------ the strategy --------------------------- *)

\* The contexts handed to evaluate_new_signal: any alias, an H4 series that
\* is empty or ends at any timestamp, any outcome of the analyses, the
\* quiet candle.
StrategyContext(alias, h4_timestamp, setup) ==
    ScanContext(alias, h4_timestamp, setup,
                [high |-> 100, low |-> 100, close |-> 100], 4, 1)

\* A call of evaluate_new_signal; ret keeps the verdict of the call before
\* it and whether that call had the same context.
EvaluateNewSignal ==
    \E alias \in Aliases, h4_timestamp \in {None} \cup (1 .. MaxCallTs),
       setup \in Setups :
        LET ctx == StrategyContext(alias, h4_timestamp, setup)
            ev == evaluate_new_signal(last_h4_timestamp, trades, ctx)
            returned == ev.signal # NoSignal
            after_call == ret.op = "evaluate_new_signal"
        IN  /\ last_h4_timestamp' = ev.last_h4_timestamp
            /\ emitted' = IF returned
                          THEN emitted \cup {<<alias, h4_timestamp>>}
                          ELSE emitted
            /\ ret' = [op |-> "evaluate_new_signal", alias |-> alias,
                       h4_timestamp |-> h4_timestamp, setup |-> setup,
                       direction |-> ev.signal.direction,
                       repeat |-> returned /\ <<alias, h4_timestamp>> \in emitted,
                       same_context |-> /\ after_call
                                        /\ ret.alias = alias
                                        /\ ret.h4_timestamp = h4_timestamp
                                        /\ ret.setup = setup,
                       previous |-> IF after_call THEN ret.direction
                                                  ELSE NoneStr,
                       stored_before |-> last_h4_timestamp[alias],
                       gate_open |-> has_h4_candle_closed(last_h4_timestamp, ctx).closed,
                       evaluated |-> (IF after_call THEN ret.evaluated ELSE {})
                                     \cup (IF has_h4_candle_closed(last_h4_timestamp, ctx).closed
                                           THEN {<<alias, h4_timestamp>>} ELSE {}),
                       again |-> /\ has_h4_candle_closed(last_h4_timestamp, ctx).closed
                                 /\ after_call
                                 /\ <<alias, h4_timestamp>> \in ret.evaluated,
                       in_order |-> /\ after_call => ret.in_order
                                    /\ \/ h4_timestamp = None
                                       \/ last_h4_timestamp[alias] = None
                                       \/ h4_timestamp >= last_h4_timestamp[alias]]
            /\ UNCHANGED <<signals, trades, closed_trades, call, cache, last_fetch, pending, scanner>>

NextStrategy == EvaluateNewSignal

SpecStrategy == Init /\ [][NextStrategy]_vars

\* C7: for an alias and an H4 timestamp, at most one call of
\* evaluate_new_signal returns a signal, in whatever order the contexts'
\* last H4 timestamps arrive.
OneSignalPerH4Candle ==
    ret.op = "evaluate_new_signal" => ~ret.repeat

\* C8 as stated: called twice in a row on the same context,
\* evaluate_new_signal returns the same verdict.
SameContextSameVerdict ==
    (ret.op = "evaluate_new_signal" /\ ret.same_context) =>
        ret.direction = ret.previous

\* C8: called twice in a row on the same context, evaluate_new_signal
\* returns None the second time, so the verdicts agree only when the first
\* was None.
SameContextSecondIsNone ==
    (ret.op = "evaluate_new_signal" /\ ret.same_context) =>
        /\ ret.direction = NoneStr
        /\ (ret.direction = ret.previous) <=> (ret.previous = NoneStr)

\* C8's case: a second call on the context that had just got a signal.
SecondCallAfterSignal ==
    /\ ret.op = "evaluate_new_signal"
    /\ ret.same_context
    /\ ret.previous # NoneStr

(* ------------------------------ the estimator -------------------------- *)

\* The swing lists of a SignalContext.
SwingLists == { <<>>, <<96>>, <<104>>, <<90, 120>> }

\* The arguments of estimate_for_new_signal: the SignalContext and the
\* median MFE get_mae_mfe_stats returns (None without closed trades).
EstimateInputs ==
    { [fn |-> "estimate_for_new_signal",
       ctx |-> [direction |-> d, entry_price |-> e, h4_atr |-> a4,
                h1_atr |-> a1, recent_swing_highs |-> hs,
                recent_swing_lows |-> ls],
       median_mfe |-> m] :
        d \in Directions, e \in {50, 100}, a4 \in {0, 4}, a1 \in {0, 4},
        hs \in SwingLists, ls \in SwingLists, m \in {None, 0, 6} }

\* The arguments of evaluate_adjustment: an OpenTradeAnalytics around an
\* entry of 100, the stop on either side of it or at it.
AdjustmentCallInputs ==
    { [fn |-> "evaluate_adjustment",
       ctx |-> [direction |-> d, entry_price |-> 100,
                current_price |-> 100 + move, current_sl |-> 100 + stop,
                h4_atr |-> a4, open_duration |-> dur]] :
        d \in Directions, move \in (0 - MaxMove) .. MaxMove,
        stop \in (0 - MaxSlDistance) .. MaxSlDistance,
        a4 \in {0, 1, 4}, dur \in {SimplifiedOpenDuration, TimeStopHours + 1} }

\* A process about to call estimate_for_new_signal.
InitEstimate ==
    /\ signals = <<>>
    /\ trades = <<>>
    /\ closed_trades = {}
    /\ last_h4_timestamp = [a \in Aliases |-> None]
    /\ emitted = {}
    /\ ret = [op |-> "init"]
    /\ call \in EstimateInputs
    /\ cache = [key \in {} |-> <<>>]
    /\ last_fetch = [key \in {} |-> 0]
    /\ pending = <<>>
    /\ scanner = NewSimpleScanner

\* The call of estimate_for_new_signal.
EstimateForNewSignal ==
    /\ call.fn = "estimate_for_new_signal"
    /\ ret.op = "init"
    /\ LET est == estimate_for_new_signal(call.ctx, call.median_mfe)
       IN  ret' = [op |-> "estimate_for_new_signal", sl |-> est.sl,
                   tp |-> est.tp]
    /\ UNCHANGED <<signals, trades, closed_trades, last_h4_timestamp, emitted, call, cache, last_fetch, pending, scanner>>

NextEstimate == EstimateForNewSignal

SpecEstimate == InitEstimate /\ [][NextEstimate]_vars

\* A process about to call evaluate_adjustment.
InitAdjust ==
    /\ signals = <<>>
    /\ trades = <<>>
    /\ closed_trades = {}
    /\ last_h4_timestamp = [a \in Aliases |-> None]
    /\ emitted = {}
    /\ ret = [op |-> "init"]
    /\ call \in AdjustmentCallInputs
    /\ cache = [key \in {} |-> <<>>]
    /\ last_fetch = [key \in {} |-> 0]
    /\ pending = <<>>
    /\ scanner = NewSimpleScanner

\* The call of evaluate_adjustment.
EvaluateAdjustment ==
    /\ call.fn = "evaluate_adjustment"
    /\ ret.op = "init"
    /\ ret' = [op |-> "evaluate_adjustment",
               adjustment |-> evaluate_adjustment(call.ctx)]
    /\ UNCHANGED <<signals, trades, closed_trades, last_h4_timestamp, emitted, call, cache, last_fetch, pending, scanner>>

NextAdjust == EvaluateAdjustment

SpecAdjust == InitAdjust /\ [][NextAdjust]_vars

\* C9: estimate_for_new_signal returns sl < entry < tp for a buy and
\* tp < entry < sl for a sell, whatever the entry, the swing lists, the ATR
\* values and the median MFE.
StopAndTargetAroundEntry ==
    ret.op = "estimate_for_new_signal" =>
        IF call.ctx.direction = "buy"
        THEN ret.sl < call.ctx.entry_price /\ call.ctx.entry_price < ret.tp
        ELSE ret.tp < call.ctx.entry_price /\ call.ctx.entry_price < ret.sl

\* The stop of the call is on the loss side of the entry.
SlOnLossSide(ctx) ==
    IF ctx.direction = "buy" THEN ctx.current_sl < ctx.entry_price
                             ELSE ctx.current_sl > ctx.entry_price

\* The profit of the call, in price units: positive when the trade gains.
Profit(ctx) ==
    IF ctx.direction = "buy" THEN ctx.current_price - ctx.entry_price
                             ELSE ctx.entry_price - ctx.current_price

\* The breakeven adjustment.
BreakevenMove(ctx) ==
    SlTpAdjustment("move_sl", ctx.entry_price, None,
                   "Move SL to breakeven (1R profit)")

\* C10 as stated: whenever the profit is exactly one SL distance and the
\* stop is on the loss side of the entry, evaluate_adjustment returns the
\* move to breakeven.
BreakevenAtOneR ==
    (/\ ret.op = "evaluate_adjustment"
     /\ SlOnLossSide(call.ctx)
     /\ Profit(call.ctx) = Abs(call.ctx.entry_price - call.ctx.current_sl)) =>
        ret.adjustment = BreakevenMove(call.ctx)

\* C10: with the stop on the loss side of the entry, evaluate_adjustment
\* returns the move to breakeven when the profit is more than one SL
\* distance, and no move of the stop when it is exactly one SL distance.
BreakevenAboveOneR ==
    (ret.op = "evaluate_adjustment" /\ SlOnLossSide(call.ctx)) =>
        LET r == Abs(call.ctx.entry_price - call.ctx.current_sl)
        IN  /\ Profit(call.ctx) > r => ret.adjustment = BreakevenMove(call.ctx)
            /\ Profit(call.ctx) = r => ret.adjustment.action # "move_sl"

\* C10's case: the profit of the call is exactly one SL distance.
CalledAtOneR ==
    /\ ret.op = "evaluate_adjustment"
    /\ SlOnLossSide(call.ctx)
    /\ Profit(call.ctx) = Abs(call.ctx.entry_price - call.ctx.current_sl)
    /\ ret.adjustment = NoAdjustment

(* ------------------------- market data provider ------------------------ *)
(* YFinanceMarketDataProvider (app/data/yfinance_provider.py).  Time is    *)
(* counted in days.  A frame is a sequence of candles, each a timestamp ts *)
(* and a value v that stands for its open, high, low, close and volume.    *)
(* SpecCache is the provider called directly with any supported or         *)
(* unsupported interval and any lookback.                                  *)

\* Largest value of datetime.utcnow() a provider call sees, and so the
\* largest timestamp of a candle.
MaxNow == 2
\* Largest value of a candle.
MaxVal == 1

\* INTERVAL_MAP: our interval -> the remote's interval.
INTERVAL_MAP ==
    [i \in {"1m", "5m", "15m", "30m", "60m", "240m"} |->
        CASE i = "60m" -> "1h" [] i = "240m" -> "4h" [] OTHER -> i]

\* MAX_LOOKBACK: interval -> the longest history the remote serves, in days.
MAX_LOOKBACK ==
    [i \in {"1m", "5m", "15m", "30m", "60m", "240m"} |->
        CASE i = "1m" -> 7
          [] i \in {"5m", "15m", "30m"} -> 60
          [] OTHER -> 730]

\* The elements of a set of integers in ascending order.
RECURSIVE Ascending(_)
Ascending(S) ==
    IF S = {} THEN <<>>
    ELSE LET least == CHOOSE x \in S : \A y \in S : x <= y
         IN  <<least>> \o Ascending(S \ {least})

\* The frames history() of the remote returns for start..end: candles of
\* the requested range, in ascending order of timestamp, no timestamp
\* twice; any of them may be missing (a closed market) and the frame may be
\* empty.  No candle is older than day 0 or newer than end.
History(start, end) ==
    { [i \in 1 .. Cardinality(T) |-> [ts |-> Ascending(T)[i], v |-> val[Ascending(T)[i]]]] :
        <<T, val>> \in { <<T, val>> \in (SUBSET (Max({start, 0}) .. end)) \X [0 .. end -> 0 .. MaxVal] :
                            \A t \in (0 .. end) \ T : val[t] = 0 } }

\* What one call of _fetch_yfinance ends in: a frame, or the exception the
\* remote call raised.
Fetches(start, end) ==
    { [error |-> "", data |-> f] : f \in History(start, end) }
    \cup { [error |-> e, data |-> <<>>] : e \in {"ConnectionError", "HTTPError"} }

\* The retry decorator: a ConnectionError or TimeoutError is tried
\* stop_after_attempt times and then leaves as RetryError; any other
\* exception leaves at once.
Retry(error) ==
    IF error \in {"ConnectionError", "TimeoutError"} THEN "RetryError" ELSE error

\* A lookback passed on as it came.
Unclamped(interval, lookback) == lookback

\* The clamped lookback of get_candles.
ClampedLookback(interval, lookback) ==
    IF lookback > MAX_LOOKBACK[interval] THEN MAX_LOOKBACK[interval] ELSE lookback

\* A start that is now - lookback for a cached key as well.
FetchFromLookback(c, symbol, interval, lookback, now) ==
    now - ClampedLookback(interval, lookback)

\* A start that is the first cached timestamp for a cached key.
FetchFromFirstCached(c, symbol, interval, lookback, now) ==
    IF <<symbol, interval>> \in DOMAIN c
    THEN c[<<symbol, interval>>][1].ts
    ELSE now - ClampedLookback(interval, lookback)

\* The start get_candles asks the remote for: the last cached timestamp for
\* a cached key, now - lookback (clamped) for a first fetch.
FetchStart(c, symbol, interval, lookback, now) ==
    IF <<symbol, interval>> \in DOMAIN c
    THEN c[<<symbol, interval>>][Len(c[<<symbol, interval>>])].ts
    ELSE now - ClampedLookback(interval, lookback)

\* A merge that drops no row.
KeepDuplicated(frame) == frame

\* Of the rows with one timestamp the first stays.
RECURSIVE DropDuplicatedKeepFirst(_)
DropDuplicatedKeepFirst(frame) ==
    IF frame = <<>> THEN <<>>
    ELSE IF \E j \in 1 .. Len(frame) - 1 : frame[j].ts = frame[Len(frame)].ts
    THEN DropDuplicatedKeepFirst(SubSeq(frame, 1, Len(frame) - 1))
    ELSE Append(DropDuplicatedKeepFirst(SubSeq(frame, 1, Len(frame) - 1)),
                frame[Len(frame)])

\* combined[~combined.index.duplicated(keep='last')]: of the rows with one
\* timestamp the last stays, in the order of the frame.
RECURSIVE DropDuplicatedKeepLast(_)
DropDuplicatedKeepLast(frame) ==
    IF frame = <<>> THEN <<>>
    ELSE IF \E j \in 2 .. Len(frame) : frame[j].ts = frame[1].ts
    THEN DropDuplicatedKeepLast(Tail(frame))
    ELSE <<frame[1]>> \o DropDuplicatedKeepLast(Tail(frame))

\* A row put into a frame sorted by timestamp, behind the rows that are not
\* later than it.
RECURSIVE InsertRow(_, _)
InsertRow(sorted, row) ==
    IF sorted = <<>> THEN <<row>>
    ELSE IF sorted[Len(sorted)].ts <= row.ts THEN Append(sorted, row)
    ELSE Append(InsertRow(SubSeq(sorted, 1, Len(sorted) - 1), row),
                sorted[Len(sorted)])

\* sort_index(): the rows in ascending order of timestamp.
RECURSIVE sort_index(_)
sort_index(frame) ==
    IF frame = <<>> THEN <<>>
    ELSE InsertRow(sort_index(SubSeq(frame, 1, Len(frame) - 1)),
                   frame[Len(frame)])

\* The merge of a later fetch: concat, drop duplicates, sort.
Merge(cached, new_data) ==
    sort_index(DropDuplicatedKeepLast(cached \o new_data))

\* A dict with key set to value.
SetItem(d, key, value) == (key :> value) @@ d

\* The branch of get_candles for a cached key: a non-empty fetch is merged
\* into the entry, the time is recorded, the entry is returned.
LaterFetch(c, lf, key, now, data) ==
    LET merged == IF data # <<>> THEN SetItem(c, key, Merge(c[key], data))
                                 ELSE c
    IN  [raised |-> "", data |-> merged[key], cache |-> merged,
         last_fetch |-> SetItem(lf, key, now)]

\* A first fetch that stores whatever the remote returned.
FirstFetchStoresAny(c, lf, key, now, data) ==
    [raised |-> "", data |-> data, cache |-> SetItem(c, key, data),
     last_fetch |-> SetItem(lf, key, now)]

\* The branch of get_candles for a key not cached: an empty fetch raises,
\* any other is stored as it came and returned.
FirstFetch(c, lf, key, now, data) ==
    IF data = <<>>
    THEN [raised |-> "ValueError", data |-> <<>>, cache |-> c, last_fetch |-> lf]
    ELSE [raised |-> "", data |-> data, cache |-> SetItem(c, key, data),
          last_fetch |-> SetItem(lf, key, now)]

\* get_candles with the outcome of its _fetch_yfinance call: what it
\* raises, the frame it returns, and the cache and last-fetch record after.
get_candles(c, lf, symbol, interval, lookback, now, fetch) ==
    LET key == <<symbol, interval>>
        unchanged == [raised |-> "", data |-> <<>>, cache |-> c, last_fetch |-> lf]
    IN  IF interval \notin DOMAIN INTERVAL_MAP
        THEN [unchanged EXCEPT !.raised = "ValueError"]
        ELSE IF fetch.error # ""
        THEN [unchanged EXCEPT !.raised = Retry(fetch.error)]
        ELSE IF key \in DOMAIN c
        THEN LaterFetch(c, lf, key, now, fetch.data)
        ELSE FirstFetch(c, lf, key, now, fetch.data)

\* clear_cache: every key the given symbol and interval match is removed.
clear_cache(d, symbol, interval) ==
    LET keys_to_remove ==
            { key \in DOMAIN d :
                /\ symbol = NoneStr \/ key[1] = symbol
                /\ interval = NoneStr \/ key[2] = interval }
    IN  [key \in DOMAIN d \ keys_to_remove |-> d[key]]

\* A configuration that gives every alias the same remote symbol.
SharedSymbol == [a \in Aliases |-> "^DJI"]

\* The remote's symbol of each configured alias.
YfSymbol == [a \in Aliases |-> IF a = "US30" THEN "^DJI" ELSE "^NDX"]

\* The intervals and lookbacks, in days, a direct caller of the provider
\* passes: "2m" is not supported.
CallIntervals == {"1m", "240m", "2m"}
CallLookbacks == {1, 8}

\* The largest time the provider has recorded: the clock never goes back.
LastClock == Max({0} \cup { last_fetch[k] : k \in DOMAIN last_fetch })

\* A call of get_candles.  An unsupported interval is refused before
\* anything is asked of the remote.
GetCandles ==
    \E interval \in CallIntervals, lookback \in CallLookbacks,
       now \in LastClock .. MaxNow :
        \E fetch \in IF interval \in DOMAIN INTERVAL_MAP
                     THEN Fetches(FetchStart(cache, "^DJI", interval, lookback, now), now)
                     ELSE { [error |-> "", data |-> <<>>] } :
            \E r \in { get_candles(cache, last_fetch, "^DJI", interval, lookback, now, fetch) } :
                /\ cache' = r.cache
                /\ last_fetch' = r.last_fetch
                /\ ret' = [op |-> "get_candles", interval |-> interval,
                           lookback |-> lookback, now |-> now,
                           first |-> <<"^DJI", interval>> \notin DOMAIN cache,
                           start |-> IF interval \in DOMAIN INTERVAL_MAP
                                     THEN FetchStart(cache, "^DJI", interval, lookback, now)
                                     ELSE now,
                           empty |-> fetch.data = <<>>, raised |-> r.raised,
                           grown |-> IF <<"^DJI", interval>> \in DOMAIN cache
                                     THEN Len(r.cache[<<"^DJI", interval>>])
                                          - Len(cache[<<"^DJI", interval>>])
                                     ELSE 0,
                           replaced |-> /\ <<"^DJI", interval>> \in DOMAIN cache
                                        /\ r.cache[<<"^DJI", interval>>][Len(cache[<<"^DJI", interval>>])]
                                           # cache[<<"^DJI", interval>>][Len(cache[<<"^DJI", interval>>])]]
                /\ UNCHANGED <<signals, trades, closed_trades, last_h4_timestamp,
                               emitted, call, pending, scanner>>

\* A call of clear_cache.
ClearCache ==
    \E symbol \in {NoneStr, "^DJI"}, interval \in {NoneStr, "1m", "240m"} :
        /\ cache' = clear_cache(cache, symbol, interval)
        /\ last_fetch' = clear_cache(last_fetch, symbol, interval)
        /\ ret' = [op |-> "clear_cache"]
        /\ UNCHANGED <<signals, trades, closed_trades, last_h4_timestamp,
                       emitted, call, pending, scanner>>

NextCache ==
    \/ GetCandles
    \/ ClearCache

SpecCache == Init /\ [][NextCache]_vars

(* ------------------------- claims on the provider ---------------------- *)

\* The timestamps of a frame are strictly increasing.
StrictlyIncreasing(frame) ==
    \A i \in 1 .. Len(frame) - 1 : frame[i].ts < frame[i + 1].ts

\* The key of the get_candles call ret reports.
RetKey == <<"^DJI", ret.interval>>

LaterFetchKeepsEntry ==
    [][ ret'.op = "get_candles" =>
          \A key \in DOMAIN cache :
             /\ key \in DOMAIN cache'
             /\ Len(cache'[key]) >= Len(cache[key])
             /\ \A i \in 1 .. Len(cache[key]) :
                   /\ cache'[key][i].ts = cache[key][i].ts
                   /\ i < Len(cache[key]) => cache'[key][i] = cache[key][i] ]_vars

\* A later fetch replaced the value of the last cached candle and appended
\* newer candles.
LastReplacedAndAppended ==
    /\ ret.op = "get_candles"
    /\ ret.raised = ""
    /\ ~ret.first
    /\ ret.replaced
    /\ ret.grown > 0

\* C13: a first fetch asks the remote for the candles from
\* now - min(lookback, MAX_LOOKBACK of the interval) on.
FirstFetchStartClamped ==
    (ret.op = "get_candles" /\ ret.first /\ ret.interval \in DOMAIN MAX_LOOKBACK)
        => ret.start = ret.now - Min({ret.lookback, MAX_LOOKBACK[ret.interval]})

\* A first fetch with a lookback longer than the interval's maximum went
\* through.
LongLookbackFetched ==
    /\ ret.op = "get_candles"
    /\ ret.first
    /\ ret.raised = ""
    /\ ret.interval \in DOMAIN MAX_LOOKBACK
    /\ ret.lookback > MAX_LOOKBACK[ret.interval]

\* C14: a get_candles call that returns hands back a non-empty frame; a first
\* fetch the remote answers with nothing raises and creates no entry; a
\* call that raises leaves the cache and the last-fetch record as they were.
NonEmptyOrRaises ==
    [][ ret'.op = "get_candles" =>
          /\ ret'.raised = "" => cache'[<<"^DJI", ret'.interval>>] # <<>>
          /\ (ret'.first /\ ret'.empty) =>
                 /\ ret'.raised # ""
                 /\ <<"^DJI", ret'.interval>> \notin DOMAIN cache'
          /\ ret'.raised # "" => (cache' = cache /\ last_fetch' = last_fetch) ]_vars

\* A first fetch of a supported interval got nothing from the remote while
\* another key was cached.
FirstFetchGotNothing ==
    /\ ret.op = "get_candles"
    /\ ret.first
    /\ ret.empty
    /\ ret.interval \in DOMAIN INTERVAL_MAP
    /\ DOMAIN cache # {}

(* ------------------------ claims on a pass's steps --------------------- *)

\* The positions of the steps named ev in the log of the pass ret reports.
StepsOf(evs) == { i \in DOMAIN ret.log : ret.log[i].ev \in evs }

\* The steps that evaluate or change a trade.
TradeSteps == {"check_and_update_trade", "apply_action", "send_close_alert",
               "send_update_alert"}

AdjustmentEvaluatedInPass ==
    ret.op = "scan_symbol" =>
        \A i \in DOMAIN ret.checks :
            ret.checks[i].action_type = "None" =>
                \E j \in DOMAIN ret.log :
                    ret.log[j] = Event("evaluate_open_trade", ret.checks[i].trade_id)

ClosedSetReloaded ==
    ret.op = "__init__" =>
        \A t \in DOMAIN trades :
            trades[t].state # "Open" =>
                /\ is_trade_closed(closed_trades, t)
                /\ ~should_send_tp_notification(closed_trades, t, "ClosedByTp")

(* ------------------- SL and TP tests on an open trade ------------------ *)
(* SpecCheck is one call of check_and_update_trade or of                   *)
(* evaluate_open_trade for an open trade and a candle.                     *)

\* The candles of a call: highs and lows below, at and beyond the stops and
\* targets of CallerPrices.
CheckCandles ==
    { [high |-> h, low |-> l] : h \in {100, 108, 110, 112},
                                l \in {88, 90, 92, 100} }

\* The arguments of a call: an open trade of either direction, a candle,
\* and the current price at the candle's low or high.
CheckInputs ==
    { [fn |-> "check_open_trade",
       trade |-> [DetachedTrade(1) EXCEPT !.direction = d,
                                          !.stop_loss = CallerPrices(d).sl,
                                          !.take_profit = CallerPrices(d).tp],
       candle_high |-> c.high, candle_low |-> c.low, current_price |-> p] :
        d \in Directions, c \in CheckCandles, p \in {100, 112} }

\* A process about to check an open trade.
InitCheck ==
    /\ signals = <<>>
    /\ trades = <<>>
    /\ closed_trades = {}
    /\ last_h4_timestamp = [a \in Aliases |-> None]
    /\ emitted = {}
    /\ ret = [op |-> "init"]
    /\ call \in CheckInputs
    /\ cache = [key \in {} |-> <<>>]
    /\ last_fetch = [key \in {} |-> 0]
    /\ pending = <<>>
    /\ scanner = NewSimpleScanner

\* The call of check_and_update_trade.
CheckOpenTrade ==
    /\ call.fn = "check_open_trade"
    /\ ret.op = "init"
    /\ \E chk \in { check_and_update_trade(closed_trades, call.trade,
                                           call.candle_high, call.candle_low) } :
          /\ closed_trades' = chk.closed_trades
          /\ ret' = [op |-> "check_and_update_trade", action |-> chk.action]
    /\ UNCHANGED <<signals, trades, last_h4_timestamp, emitted, call, cache, last_fetch, pending, scanner>>

\* The call of evaluate_open_trade, with the trade's values in its context.
EvaluateOpenTrade ==
    /\ call.fn = "check_open_trade"
    /\ ret.op = "init"
    /\ ret' = [op |-> "evaluate_open_trade",
               action |-> evaluate_open_trade(
                   [direction |-> call.trade.direction,
                    entry_price |-> call.trade.actual_entry_price,
                    current_price |-> call.current_price,
                    current_sl |-> call.trade.stop_loss,
                    current_tp |-> call.trade.take_profit,
                    candle_high |-> call.candle_high,
                    candle_low |-> call.candle_low,
                    h4_atr |-> 4])]
    /\ UNCHANGED <<signals, trades, closed_trades, last_h4_timestamp, emitted, call, cache, last_fetch, pending, scanner>>

NextCheck ==
    \/ CheckOpenTrade
    \/ EvaluateOpenTrade

SpecCheck == InitCheck /\ [][NextCheck]_vars

\* The candle of the call crosses the trade's stop loss.
CallCrossesSl ==
    \/ call.trade.direction = "buy" /\ call.candle_low <= call.trade.stop_loss
    \/ call.trade.direction = "sell" /\ call.candle_high >= call.trade.stop_loss

\* The candle of the call crosses the trade's take profit.
CallCrossesTp ==
    \/ call.trade.direction = "buy" /\ call.candle_high >= call.trade.take_profit
    \/ call.trade.direction = "sell" /\ call.candle_low <= call.trade.take_profit

MaxCycleNow == 1

\* config.scanner.symbols in the order run_scan_cycle walks them.
ConfiguredSymbols == <<"US30", "NAS100">>

\* The setups the passes of a cycle find.
CycleSetups == { s \in Setups : s.bias \in {NoneStr, "buy"} /\ s.structure_confirmed }

\* What the remote returns to a pass: every candle from start to now.
ScanFetch(start, now) ==
    [error |-> "",
     data |-> [i \in 1 .. now - Max({start, 0}) + 1 |->
                  [ts |-> Max({start, 0}) + i - 1, v |-> 0]]]

\* handle_data_error: the error is logged and announced; nothing it does
\* raises.  What it lets out.
handle_data_error(error) == ""

\* handle_runtime_error: the same for what run_scan_cycle catches.
handle_runtime_error(error) == ""

\* The get_candles calls of scan_symbol from the k-th on; the call fail_at
\* (0: none) has the remote fail.  calls counts the calls that returned.
\* RefreshNext goes on from what the k-th call came back with.
RECURSIVE Refresh(_, _, _, _, _, _)
RECURSIVE RefreshNext(_, _, _, _, _, _, _)
RefreshNext(got, c, lf, symbol, now, k, fail_at) ==
    IF got.raised # ""
    THEN [raised |-> got.raised, cache |-> c, last_fetch |-> lf, calls |-> k - 1]
    ELSE Refresh(got.cache, got.last_fetch, symbol, now, k + 1, fail_at)

Refresh(c, lf, symbol, now, k, fail_at) ==
    IF k > Len(ScanIntervals)
    THEN [raised |-> "", cache |-> c, last_fetch |-> lf, calls |-> k - 1]
    ELSE RefreshNext(
             get_candles(c, lf, symbol, ScanIntervals[k].interval,
                         ScanIntervals[k].lookback, now,
                         IF k = fail_at
                         THEN [error |-> "ConnectionError", data |-> <<>>]
                         ELSE ScanFetch(FetchStart(c, symbol, ScanIntervals[k].interval,
                                                   ScanIntervals[k].lookback, now),
                                        now)),
             c, lf, symbol, now, k, fail_at)

\* What scan_symbol leaves when its refreshes and the rest of the pass are
\* over: whatever the pass raised goes to handle_data_error.
ScanPassed(fetched, pass) ==
    [signals |-> pass.signals, trades |-> pass.trades,
     closed_trades |-> pass.closed_trades,
     last_h4_timestamp |-> pass.last_h4_timestamp,
     signal_id |-> pass.signal_id,
     checks |-> pass.checks, alerts |-> pass.alerts,
     delivered |-> pass.delivered,
     log |-> Fetched \o pass.log,
     raised |-> pass.raised,
     escaped |-> IF pass.raised # "" THEN handle_data_error(pass.raised) ELSE "",
     cache |-> fetched.cache, last_fetch |-> fetched.last_fetch]

\* The timestamp of the last candle of a frame.
LastTimestamp(frame) == frame[Len(frame)].ts

\* scan_symbol once its get_candles calls are over: a call that raised ends
\* the pass in handle_data_error, otherwise the rest of the pass runs on the
\* frames returned.
ScanRefreshed(fetched, sigs, trs, closed, last, alias, in) ==
    IF fetched.raised # ""
    THEN [signals |-> sigs, trades |-> trs, closed_trades |-> closed,
          last_h4_timestamp |-> last, signal_id |-> None,
          checks |-> <<>>, alerts |-> <<>>, delivered |-> 0,
          log |-> SubSeq(Fetched, 1, fetched.calls),
          raised |-> fetched.raised,
          escaped |-> handle_data_error(fetched.raised),
          cache |-> fetched.cache, last_fetch |-> fetched.last_fetch]
    ELSE ScanPassed(fetched,
             ScanFetched(sigs, trs, closed, last,
                         ScanContext(alias,
                                     LastTimestamp(fetched.cache[<<YfSymbol[alias], "240m">>]),
                                     in.setup, in.candle, in.atr, in.now),
                         in.transport))

\* scan_symbol: the six refreshes, then the rest of the pass.  in holds
\* what the pass meets: the time, the failing call, the setup, the last H1
\* candle, the ATR and the transport.
scan_symbol(sigs, trs, closed, last, c, lf, alias, in) ==
    ScanRefreshed(Refresh(c, lf, YfSymbol[alias], in.now, 1, in.fail_at),
                  sigs, trs, closed, last, alias, in)

\* What a pass of a cycle meets: either its six get_candles calls return
\* and it finds any setup, candle and transport, or one of the calls fails.
PassInputs ==
    [now : LastClock .. MaxCycleNow, fail_at : {0},
     setup : CycleSetups, candle : Candles, atr : ScanAtrs,
     transport : Transports]
    \cup
    [now : LastClock .. MaxCycleNow, fail_at : 1 .. Len(ScanIntervals),
     setup : { s \in CycleSetups : s.bias = NoneStr },
     candle : { c \in Candles : c.high = c.low }, atr : ScanAtrs,
     transport : {"up"}]

\* run_scan_cycle starts: its loop has every configured symbol before it.
RunScanCycle ==
    /\ pending = <<>>
    /\ pending' = ConfiguredSymbols
    /\ ret' = [op |-> "run_scan_cycle", failures |-> 0]
    /\ UNCHANGED <<signals, trades, closed_trades, last_h4_timestamp, emitted,
                   call, cache, last_fetch, scanner>>

\* One turn of run_scan_cycle's loop: scan_symbol for the next symbol; what
\* it lets out goes to handle_runtime_error, and what that lets out would
\* end the loop.  failures counts the passes of the cycle that raised.
ScanNextSymbol ==
    /\ pending # <<>>
    /\ \E in \in PassInputs :
          \E r \in { scan_symbol(signals, trades, closed_trades, last_h4_timestamp,
                                 cache, last_fetch, Head(pending), in) } :
              /\ Len(r.signals) <= MaxSignals
              /\ Len(r.trades) <= MaxTrades
              /\ signals' = r.signals
              /\ trades' = r.trades
              /\ closed_trades' = r.closed_trades
              /\ last_h4_timestamp' = r.last_h4_timestamp
              /\ cache' = r.cache
              /\ last_fetch' = r.last_fetch
              /\ emitted' = IF r.signal_id # None
                            THEN emitted \cup {<<Head(pending), in.now>>}
                            ELSE emitted
              /\ pending' = IF r.escaped # "" /\ handle_runtime_error(r.escaped) # ""
                            THEN <<>>
                            ELSE Tail(pending)
              /\ ret' = [op |-> "scan_symbol", alias |-> Head(pending),
                         candle_high |-> in.candle.high,
                         candle_low |-> in.candle.low,
                         raised |-> r.raised, signal_id |-> r.signal_id,
                         checks |-> r.checks, alerts |-> r.alerts,
                         delivered |-> r.delivered, log |-> r.log,
                         failures |-> IF r.raised # "" THEN ret.failures + 1
                                                       ELSE ret.failures]
    /\ UNCHANGED <<call, scanner>>

NextCycle ==
    \/ RunScanCycle
    \/ ScanNextSymbol

SpecCycle == Init /\ [][NextCycle]_vars

\* The cache entries, the H4 gate, the trades and their marks in the closed
\* set of a symbol are after a step what they were before it.
Untouched(alias) ==
    /\ \A tf \in DOMAIN INTERVAL_MAP :
          /\ <<YfSymbol[alias], tf>> \in DOMAIN cache'
                <=> <<YfSymbol[alias], tf>> \in DOMAIN cache
          /\ <<YfSymbol[alias], tf>> \in DOMAIN cache
                => cache'[<<YfSymbol[alias], tf>>] = cache[<<YfSymbol[alias], tf>>]
    /\ last_h4_timestamp'[alias] = last_h4_timestamp[alias]
    /\ \A t \in DOMAIN trades' :
          IF t \in DOMAIN trades
          THEN trades[t].symbol_alias = alias =>
                  /\ trades'[t] = trades[t]
                  /\ t \in closed_trades' <=> t \in closed_trades
          ELSE trades'[t].symbol_alias # alias

CheckOfClosedHasNoEffect ==
    [][ret'.op = "check_and_update_trade"
         => /\ trades' = trades
            /\ trades[ret'.trade_id].state # "Open"
                 => /\ ret'.action = NoAction
                    /\ closed_trades' = closed_trades]_vars

(* ------------------------ the retry of get_candles --------------------- *)

\* stop_after_attempt(3) of get_candles' retry decorator.
stop_after_attempt == 3

\* retry_if_exception_type((ConnectionError, TimeoutError)).
retry_if_exception_type(error) == error \in {"ConnectionError", "TimeoutError"}

\* What one attempt's call of _fetch_yfinance ends in: a frame, or the
\* exception of the remote call, which _fetch_yfinance logs and raises
\* again: a connection, timeout or rate-limit error, or another HTTP error.
AttemptFetches(start, end) ==
    Fetches(start, end)
    \cup { [error |-> e, data |-> <<>>] : e \in {"TimeoutError", "YFRateLimitError"} }

\* The body of get_candles the decorator wraps, with the outcome of its
\* _fetch_yfinance call: an exception of the fetch leaves as it is.
get_candles_wrapped(c, lf, symbol, interval, lookback, now, fetch) ==
    IF interval \notin DOMAIN INTERVAL_MAP
    THEN [raised |-> "ValueError", data |-> <<>>, cache |-> c, last_fetch |-> lf]
    ELSE IF fetch.error # ""
    THEN [raised |-> fetch.error, data |-> <<>>, cache |-> c, last_fetch |-> lf]
    ELSE IF <<symbol, interval>> \in DOMAIN c
    THEN LaterFetch(c, lf, <<symbol, interval>>, now, fetch.data)
    ELSE FirstFetch(c, lf, <<symbol, interval>>, now, fetch.data)

\* The intervals a caller of the retried get_candles passes.
RetryIntervals == {"1m", "2m"}

\* A caller awaits get_candles: the decorator is about to make the first
\* attempt.
CallGetCandles ==
    \E interval \in RetryIntervals, lookback \in CallLookbacks :
        /\ call.fn # "get_candles"
        /\ call' = [fn |-> "get_candles", interval |-> interval,
                    lookback |-> lookback, attempt_number |-> 1]
        /\ ret' = [op |-> "call_get_candles"]
        /\ UNCHANGED <<signals, trades, closed_trades, last_h4_timestamp,
                       emitted, cache, last_fetch, pending, scanner>>

\* One attempt of the decorator: the body runs; an exception the retry
\* predicate matches is followed by another attempt until
\* stop_after_attempt is reached, and then leaves as RetryError; any other
\* outcome ends the call.
AttemptGetCandles ==
    /\ call.fn = "get_candles"
    /\ \E now \in LastClock .. MaxNow :
         \E fetch \in IF call.interval \in DOMAIN INTERVAL_MAP
                      THEN AttemptFetches(FetchStart(cache, "^DJI", call.interval, call.lookback, now), now)
                      ELSE { [error |-> "", data |-> <<>>] } :
           \E r \in { get_candles_wrapped(cache, last_fetch, "^DJI", call.interval, call.lookback, now, fetch) } :
             /\ cache' = r.cache
             /\ last_fetch' = r.last_fetch
             /\ IF retry_if_exception_type(r.raised)
                   /\ call.attempt_number < stop_after_attempt
                THEN /\ call' = [call EXCEPT !.attempt_number = @ + 1]
                     /\ ret' = [op |-> "attempt", attempt_number |-> call.attempt_number,
                                error |-> r.raised, ended |-> FALSE,
                                raised |-> ""]
                ELSE /\ call' = [fn |-> "none"]
                     /\ ret' = [op |-> "attempt", attempt_number |-> call.attempt_number,
                                error |-> r.raised, ended |-> TRUE,
                                raised |-> IF retry_if_exception_type(r.raised)
                                           THEN "RetryError" ELSE r.raised]
    /\ UNCHANGED <<signals, trades, closed_trades, last_h4_timestamp,
                   emitted, pending, scanner>>

NextRetry ==
    \/ CallGetCandles
    \/ AttemptGetCandles

SpecRetry == Init /\ [][NextRetry]_vars

\* The failures of the remote the claim calls transient.
TransientFailures == {"ConnectionError", "TimeoutError", "YFRateLimitError"}

\* C22: a get_candles call makes at most 3 upstream fetch attempts: after a
\* connection, timeout or rate-limit failure of an attempt before the third
\* the call is attempted again, after such a failure of the third attempt
\* the call ends with an exception, and an attempt that failed leaves the
\* cache as it was.
TransientFailureRetriedThrice ==
    [][ret'.op = "attempt"
         => /\ ret'.attempt_number <= 3
            /\ ret'.error \in TransientFailures
                 => /\ ret'.attempt_number < 3 => ~ret'.ended
                    /\ ret'.attempt_number = 3 => ret'.ended /\ ret'.raised # ""
            /\ ret'.error # "" => cache' = cache]_vars

(* ------------------- claims on failures inside a pass ------------------ *)

\* The pass ret reports ended in an apply_action that raised: the last step
\* that came back is the check of the trade whose action was to be applied.
ApplyFailedInPass ==
    /\ ret.op = "scan_symbol"
    /\ ret.raised # ""
    /\ ret.log # <<>>
    /\ ret.log[Len(ret.log)].ev = "check_and_update_trade"

\* C23: when apply_action fails during a scan the failure is handled as a
\* runtime error: it is logged at ERROR, a row of severity ERROR is
\* recorded in error_logs, and an error alert is dispatched.
ApplyFailureIsRuntimeError ==
    ApplyFailedInPass
        => /\ ret.handled.handler = "handle_runtime_error"
           /\ "ERROR" \in ret.handled.levels
           /\ ret.handled.error_log.severity = "ERROR"
           /\ ret.handled.error_alerts >= 1

(* --------------------------- SimpleScanner.run ------------------------- *)

\* How many cycles of run() are counted; later cycles are counted as this.
MaxCycles == 3

\* The positions of run() after which it runs no more: it returned, or an
\* exception left it.
Left == {"returned", "raised"}

\* What awaiting SimpleScanner.scan_symbol ends in: the price was logged,
\* the frame was empty, or an exception was caught and logged.
ScanOutcomes == {"price", "no_data", "error"}

\* The task of run() is started: run() sets running and reaches its while.
\* A task cancelled before its first step never runs its coroutine.
Run ==
    /\ scanner.pc = "idle"
    /\ scanner' = IF scanner.cancelling
                  THEN [scanner EXCEPT !.pc = "raised", !.cancelling = FALSE,
                                       !.cancelled = TRUE]
                  ELSE [scanner EXCEPT !.running = TRUE, !.pc = "while"]
    /\ ret' = [op |-> "run"]
    /\ UNCHANGED <<signals, trades, closed_trades, last_h4_timestamp, emitted,
                   call, cache, last_fetch, pending>>

\* while self.running: a cycle begins with the first symbol, or the loop is
\* left, running is set to False and run() returns.
WhileRunning ==
    /\ scanner.pc = "while"
    /\ scanner' = IF scanner.running
                  THEN [scanner EXCEPT !.pc = "scan_symbol", !.i = 1]
                  ELSE [scanner EXCEPT !.running = FALSE, !.pc = "returned"]
    /\ ret' = [op |-> "while", entered |-> scanner.running]
    /\ UNCHANGED <<signals, trades, closed_trades, last_h4_timestamp, emitted,
                   call, cache, last_fetch, pending>>

\* await self.scan_symbol(alias, yf_symbol) for the i-th symbol.  scan_symbol
\* catches every Exception; a cancellation that reaches the task while the
\* provider is awaited is no Exception: it goes through to run(), whose
\* except asyncio.CancelledError breaks the loop, and running is set False.
AwaitScanSymbol ==
    /\ scanner.pc = "scan_symbol"
    /\ \E outcome \in ScanOutcomes \cup
                      (IF scanner.cancelling THEN {"CancelledError"} ELSE {}) :
         /\ scanner' = IF outcome = "CancelledError"
                       THEN [scanner EXCEPT !.running = FALSE, !.pc = "returned",
                                            !.cancelling = FALSE, !.cancelled = TRUE]
                       ELSE IF scanner.i < Len(ConfiguredSymbols)
                       THEN [scanner EXCEPT !.i = @ + 1]
                       ELSE [scanner EXCEPT !.pc = "cycle_complete"]
         /\ ret' = [op |-> "scan_symbol", alias |-> ConfiguredSymbols[scanner.i],
                    outcome |-> outcome]
    /\ UNCHANGED <<signals, trades, closed_trades, last_h4_timestamp, emitted,
                   call, cache, last_fetch, pending>>

\* The end of the cycle's try block: the cycle is logged and the sleep until
\* the next scan begins, or something in the cycle outside scan_symbol
\* raised an Exception, which is logged before the 60 s wait begins.
CycleComplete ==
    /\ scanner.pc = "cycle_complete"
    /\ \E error \in BOOLEAN :
         /\ scanner' = IF error
                       THEN [scanner EXCEPT !.pc = "wait_before_retry"]
                       ELSE [scanner EXCEPT !.pc = "sleep",
                                            !.cycles = Min({@ + 1, MaxCycles})]
         /\ ret' = [op |-> "cycle_complete", error |-> error]
    /\ UNCHANGED <<signals, trades, closed_trades, last_h4_timestamp, emitted,
                   call, cache, last_fetch, pending>>

\* await asyncio.sleep(scan_interval_seconds) inside the try block: the
\* sleep ends and the while is tested again, or the cancellation is raised
\* in it, caught by except asyncio.CancelledError, and the loop is left.
AwaitSleep ==
    /\ scanner.pc = "sleep"
    /\ scanner' = IF scanner.cancelling
                  THEN [scanner EXCEPT !.running = FALSE, !.pc = "returned",
                                       !.cancelling = FALSE, !.cancelled = TRUE]
                  ELSE [scanner EXCEPT !.pc = "while"]
    /\ ret' = [op |-> "sleep", cancelled |-> scanner.cancelling]
    /\ UNCHANGED <<signals, trades, closed_trades, last_h4_timestamp, emitted,
                   call, cache, last_fetch, pending>>

\* await asyncio.sleep(60) inside except Exception: the wait ends and the
\* while is tested again, or the cancellation is raised in it; no except
\* clause of the try covers its own handlers, so the CancelledError leaves
\* run() and the assignment behind the loop is not reached.
AwaitBeforeRetry ==
    /\ scanner.pc = "wait_before_retry"
    /\ scanner' = IF scanner.cancelling
                  THEN [scanner EXCEPT !.pc = "raised", !.cancelling = FALSE,
                                       !.cancelled = TRUE]
                  ELSE [scanner EXCEPT !.pc = "while"]
    /\ ret' = [op |-> "wait_before_retry", cancelled |-> scanner.cancelling]
    /\ UNCHANGED <<signals, trades, closed_trades, last_h4_timestamp, emitted,
                   call, cache, last_fetch, pending>>

\* The task of run() is cancelled: the CancelledError is raised in it at its
\* next suspension point.
Cancel ==
    /\ scanner.pc \notin Left
    /\ ~scanner.cancelling
    /\ scanner' = [scanner EXCEPT !.cancelling = TRUE]
    /\ ret' = [op |-> "cancel"]
    /\ UNCHANGED <<signals, trades, closed_trades, last_h4_timestamp, emitted,
                   call, cache, last_fetch, pending>>

\* stop(): running is set False.  stopped records a stop() made after
\* run() began.
Stop ==
    /\ scanner' = [scanner EXCEPT !.running = FALSE,
                                  !.stopped = @ \/ scanner.pc # "idle"]
    /\ ret' = [op |-> "stop"]
    /\ UNCHANGED <<signals, trades, closed_trades, last_h4_timestamp, emitted,
                   call, cache, last_fetch, pending>>

\* The steps of the task of run().
TaskStep ==
    \/ Run
    \/ WhileRunning
    \/ AwaitScanSymbol
    \/ CycleComplete
    \/ AwaitSleep
    \/ AwaitBeforeRetry

NextLoop ==
    \/ TaskStep
    \/ Cancel
    \/ Stop

\* The event loop runs the task whenever it can make a step, and every
\* sleep and every awaited provider call ends.
SpecLoop == Init /\ [][NextLoop]_vars /\ WF_vars(TaskStep)

\* C24: the loop of run() responds to shutdown: once the task is cancelled
\* or stop() was called, run() eventually leaves its loop with running set
\* to False; and an error raised while a symbol or a cycle is scanned does
\* not end the loop.
LoopRespondsToShutdown ==
    /\ (scanner.cancelling \/ scanner.stopped)
           ~> (scanner.pc \in Left /\ ~scanner.running)
    /\ [][(\/ ret'.op = "scan_symbol" /\ ret'.outcome = "error"
           \/ ret'.op = "cycle_complete" /\ ret'.error)
              => scanner'.pc \notin Left]_vars

(* ---------------------- claims on the H4 gate -------------------------- *)

ProfitRAbove(ctx, n) ==
    /\ Abs(ctx.entry_price - ctx.current_sl) > 0
    /\ Abs(ctx.current_price - ctx.entry_price)
           > n * Abs(ctx.entry_price - ctx.current_sl)

\* The trail of the call: the current price minus (buy) or plus (sell) the
\* last H4 ATR.
TrailOf(ctx) ==
    IF ctx.direction = "buy" THEN ctx.current_price - ctx.h4_atr
                             ELSE ctx.current_price + ctx.h4_atr

\* The trail of the call strictly improves the stop.
TrailImproves(ctx) ==
    IF ctx.direction = "buy" THEN TrailOf(ctx) > ctx.current_sl
                             ELSE TrailOf(ctx) < ctx.current_sl

\* C26: evaluate_adjustment decides in this order: the move to entry when
\* profit_R > 1 and the stop is on the loss side of the entry; otherwise
\* the move to the trail when profit_R > 2 and the trail strictly improves
\* the stop; otherwise close_early 'Trade open > 7 days' when the trade is
\* older than 7 days; otherwise none.  With an SL distance of 0 no move_sl
\* is returned.
AdjustmentPriorityOrder ==
    ret.op = "evaluate_adjustment" =>
        /\ ret.adjustment =
              IF ProfitRAbove(call.ctx, 1) /\ SlOnLossSide(call.ctx)
              THEN BreakevenMove(call.ctx)
              ELSE IF ProfitRAbove(call.ctx, 2) /\ TrailImproves(call.ctx)
              THEN SlTpAdjustment("move_sl", TrailOf(call.ctx), None,
                                  "Trail SL (2R profit)")
              ELSE IF call.ctx.open_duration > 7 * 24
              THEN SlTpAdjustment("close_early", None, None,
                                  "Trade open > 7 days")
              ELSE NoAdjustment
        /\ call.ctx.current_sl = call.ctx.entry_price
              => ret.adjustment.action # "move_sl"

\* C26's case: a trade older than 7 days, more than 2 R from its entry with
\* the stop beyond the entry, gets the trail and not the time stop.
TrailBeforeTimeStop ==
    /\ ret.op = "evaluate_adjustment"
    /\ call.ctx.open_duration > 7 * 24
    /\ ~SlOnLossSide(call.ctx)
    /\ ProfitRAbove(call.ctx, 2)
    /\ call.ctx.h4_atr > 0
    /\ ret.adjustment.reason = "Trail SL (2R profit)"
    /\ ret.adjustment.new_sl = TrailOf(call.ctx)

(* ----------------- an open trade managed over time --------------------- *)

\* The stop and the target of the managed trade: a stop 2 from the entry
\* of 100 and a target 10 from it, as a signal with a median MFE of 10
\* gets them.
ManagedPrices(direction) ==
    IF direction = "buy" THEN [entry |-> 100, sl |-> 98, tp |-> 110]
                         ELSE [entry |-> 100, sl |-> 102, tp |-> 90]

\* The prices the managed trade sees, each as a candle that does not move.
ManagePrices == 97 .. 107

\* The last H4 ATR of the contexts the managed trade is evaluated in.
ManageAtrs == {1, 2}

\* The hours a managed trade has been open when it is evaluated.
ManageAges == {1, TimeStopHours + 1}

\* The TradeContext scan_symbol builds for a trade, with the last H4 ATR of
\* its context.
TradeContext(trade, current_price, candle_high, candle_low, h4_atr) ==
    [direction |-> trade.direction, entry_price |-> trade.actual_entry_price,
     current_price |-> current_price, current_sl |-> trade.stop_loss,
     current_tp |-> trade.take_profit, candle_high |-> candle_high,
     candle_low |-> candle_low, h4_atr |-> h4_atr]

\* The OpenTradeAnalytics of a trade with its real age.
AnalyticsOf(trade, current_price, h4_atr, age) ==
    [direction |-> trade.direction, entry_price |-> trade.actual_entry_price,
     current_price |-> current_price, current_sl |-> trade.stop_loss,
     h4_atr |-> h4_atr, open_duration |-> age]

\* A process that holds one signal and its open trade.
InitManage ==
    \E d \in Directions :
        /\ signals = create_signal(<<>>, "US30", d, ManagedPrices(d).entry,
                                   ManagedPrices(d).sl, ManagedPrices(d).tp)
        /\ trades = create_trade(<<>>, 1, "US30", d, ManagedPrices(d).entry,
                                 ManagedPrices(d).sl, ManagedPrices(d).tp)
        /\ closed_trades = {}
        /\ last_h4_timestamp = [a \in Aliases |-> None]
        /\ emitted = {}
        /\ ret = [op |-> "init"]
        /\ call = [fn |-> "none"]
        /\ cache = [key \in {} |-> <<>>]
        /\ last_fetch = [key \in {} |-> 0]
        /\ pending = <<>>
        /\ scanner = NewSimpleScanner

\* evaluate_open_trade for the open trade at a new price, and apply_action
\* for the action it returns.  age is how long the trade has been open.
ManageOpenTrade ==
    \E price \in ManagePrices, age \in ManageAges, h4_atr \in ManageAtrs,
       now_utc \in Times :
        /\ trades[1].state = "Open"
        /\ \E action \in { evaluate_open_trade(
                               TradeContext(trades[1], price, price, price, h4_atr)) } :
             \E app \in { IF action = NoAction
                          THEN [raised |-> "", trades |-> trades,
                                closed_trades |-> closed_trades]
                          ELSE apply_action(trades, closed_trades, 1, action,
                                            now_utc) } :
                /\ trades' = app.trades
                /\ closed_trades' = app.closed_trades
                /\ ret' = [op |-> "evaluate_open_trade", price |-> price,
                           age |-> age, h4_atr |-> h4_atr,
                           sl_before |-> trades[1].stop_loss,
                           action |-> action, raised |-> app.raised]
        /\ UNCHANGED <<signals, last_h4_timestamp, emitted, call, cache,
                       last_fetch, pending, scanner>>

NextManage == ManageOpenTrade

SpecManage == InitManage /\ [][NextManage]_vars

\* The context of the evaluation ret reports: the trade as it was before
\* the action was applied.
ManagedBefore == [trades[1] EXCEPT !.stop_loss = ret.sl_before]

\* The initial risk of the managed trade: the distance of the signal's
\* initial stop from the entry.
InitialRisk ==
    Abs(signals[trades[1].signal_id].entry_price_at_signal
        - signals[trades[1].signal_id].initial_sl)

\* C27: the R multiple is the profit over the initial SL distance, so a
\* trade whose stop was moved to its entry still gets the move to the trail
\* once its profit is more than twice the initial risk and the trail
\* strictly improves the stop.
TrailAfterBreakeven ==
    (/\ ret.op = "evaluate_open_trade"
     /\ ret.sl_before = trades[1].actual_entry_price
     /\ Profit(AnalyticsOf(ManagedBefore, ret.price, ret.h4_atr, ret.age))
            > 2 * InitialRisk
     /\ TrailImproves(AnalyticsOf(ManagedBefore, ret.price, ret.h4_atr, ret.age)))
        => /\ ret.action.action_type = "update_sl_tp"
           /\ ret.action.new_sl
                  = TrailOf(AnalyticsOf(ManagedBefore, ret.price, ret.h4_atr, ret.age))

\* C28: for a trade open for more than 7 days, with no SL or TP crossing in
\* the candle and no move of the stop due, evaluate_open_trade returns
\* close_manual with new_state ClosedManual and close_reason 'Trade open >
\* 7 days', and apply_action makes the trade ClosedManual.
OldTradeClosedManually ==
    (/\ ret.op = "evaluate_open_trade"
     /\ ret.age > 7 * 24
     /\ ~SlHit(ManagedBefore.direction, ret.sl_before, ret.price, ret.price)
     /\ ~TpHit(ManagedBefore.direction, ManagedBefore.take_profit, ret.price, ret.price)
     /\ evaluate_adjustment(AnalyticsOf(ManagedBefore, ret.price, ret.h4_atr,
                                        ret.age)).action # "move_sl")
        => /\ ret.action.action_type = "close_manual"
           /\ ret.action.new_state = "ClosedManual"
           /\ ret.action.close_reason = "Trade open > 7 days"
           /\ trades[1].state = "ClosedManual"

\* C29: evaluate_open_trade turns a move_sl adjustment into an update_sl_tp
\* action with the new SL and the adjustment's reason, and a close_early
\* adjustment into a close_manual action with its reason.
AdjustmentReasonPreserved ==
    (/\ ret.op = "evaluate_open_trade"
     /\ ret.action.action_type \in {"update_sl_tp", "close_manual"})
        => LET adjustment ==
                   evaluate_adjustment(
                       AnalyticsOf(ManagedBefore, ret.price, ret.h4_atr,
                                   SimplifiedOpenDuration))
           IN  /\ ret.action.new_sl = adjustment.new_sl
               /\ ret.action.close_reason = adjustment.reason
               /\ (ret.action.action_type = "close_manual")
                      <=> (adjustment.action = "close_early")

(* --------------------------- structure detectors ----------------------- *)

\* The lookback of the detector calls (the strategy passes 20; as there, it
\* is not shorter than the 3 candles the sweep looks at) and the length of
\* the series they are given.
StructureLookback == 3
MaxCandles == 8

\* The candles of the series: a quiet one, one that breaks upwards, one
\* that breaks downwards.
StructureCandles ==
    { [open |-> 10, high |-> 11, low |-> 9, close |-> 10],
      [open |-> 10, high |-> 13, low |-> 10, close |-> 12],
      [open |-> 10, high |-> 10, low |-> 7, close |-> 8] }

\* df.tail(n).
tail(df, n) == SubSeq(df, Max({Len(df) - n + 1, 1}), Len(df))

\* A recent high and low taken over the candles before the given one.
RecentBefore(df, lookback, last) ==
    [high |-> Max({ df[k].high : k \in (last - lookback) .. (last - 1) }),
     low |-> Min({ df[k].low : k \in (last - lookback) .. (last - 1) })]

\* recent_high and recent_low of both detectors: the extremes of
\* df.tail(lookback), whatever candle is tested against them afterwards.
RecentExtremes(df, lookback) ==
    [high |-> Max({ c.high : c \in Range(tail(df, lookback)) }),
     low |-> Min({ c.low : c \in Range(tail(df, lookback)) })]

\* detect_bos: the types of the events it returns.
detect_bos(df, lookback) ==
    IF Len(df) < lookback + 5 THEN {}
    ELSE LET recent == RecentExtremes(df, lookback)
             latest == df[Len(df)]
         IN  (IF latest.high > recent.high THEN {"bullish_bos"} ELSE {})
             \cup (IF latest.low < recent.low THEN {"bearish_bos"} ELSE {})

\* detect_liquidity_sweep: the types of the events it returns.
detect_liquidity_sweep(df, lookback) ==
    IF Len(df) < lookback + 3 THEN {}
    ELSE LET recent == RecentExtremes(df, lookback)
             last_3 == tail(df, 3)
         IN  (IF /\ last_3[1].low < recent.low
                 /\ last_3[3].close > last_3[1].open
              THEN {"bullish_sweep"} ELSE {})
             \cup
             (IF /\ last_3[1].high > recent.high
                 /\ last_3[3].close < last_3[1].open
              THEN {"bearish_sweep"} ELSE {})

\* The series handed to the detectors.
StructureInputs ==
    { [fn |-> "detect_structure", df |-> df] :
        df \in [1 .. MaxCandles -> StructureCandles] }

\* A process about to run a detector on a series.
InitStructure ==
    /\ signals = <<>>
    /\ trades = <<>>
    /\ closed_trades = {}
    /\ last_h4_timestamp = [a \in Aliases |-> None]
    /\ emitted = {}
    /\ ret = [op |-> "init"]
    /\ call \in StructureInputs
    /\ cache = [key \in {} |-> <<>>]
    /\ last_fetch = [key \in {} |-> 0]
    /\ pending = <<>>
    /\ scanner = NewSimpleScanner

\* The call of detect_bos.
DetectBos ==
    /\ call.fn = "detect_structure"
    /\ ret.op = "init"
    /\ ret' = [op |-> "detect_bos",
               events |-> detect_bos(call.df, StructureLookback)]
    /\ UNCHANGED <<signals, trades, closed_trades, last_h4_timestamp, emitted,
                   call, cache, last_fetch, pending, scanner>>

\* The call of detect_liquidity_sweep.
DetectLiquiditySweep ==
    /\ call.fn = "detect_structure"
    /\ ret.op = "init"
    /\ ret' = [op |-> "detect_liquidity_sweep",
               events |-> detect_liquidity_sweep(call.df, StructureLookback)]
    /\ UNCHANGED <<signals, trades, closed_trades, last_h4_timestamp, emitted,
                   call, cache, last_fetch, pending, scanner>>

NextStructure ==
    \/ DetectBos
    \/ DetectLiquiditySweep

SpecStructure == InitStructure /\ [][NextStructure]_vars

\* C30: on a series long enough for the detector, detect_bos reports a
\* bullish BOS when the latest candle's high is strictly above the highest
\* high of the StructureLookback candles before it, and a bearish BOS when
\* its low is strictly below their lowest low; detect_liquidity_sweep
\* reports a bullish sweep when the first of the last 3 candles has its low
\* below the lowest low of the StructureLookback candles before it and the
\* last candle closes above that candle's open.
DetectorsFireOnBreak ==
    /\ ret.op = "detect_bos" =>
          LET prior == RecentBefore(call.df, StructureLookback, Len(call.df))
          IN  /\ call.df[Len(call.df)].high > prior.high
                    => "bullish_bos" \in ret.events
              /\ call.df[Len(call.df)].low < prior.low
                    => "bearish_bos" \in ret.events
    /\ ret.op = "detect_liquidity_sweep" =>
          LET prior == RecentBefore(call.df, StructureLookback, Len(call.df) - 2)
          IN  (/\ call.df[Len(call.df) - 2].low < prior.low
               /\ call.df[Len(call.df)].close > call.df[Len(call.df) - 2].open)
                    => "bullish_sweep" \in ret.events

(* ----------------------- claims on incremental fetches ----------------- *)

\* C31: a get_candles call for a key that is not cached asks the remote for
\* the candles from now - lookback on (the lookback as get_candles clamps
\* it); a call for a cached key, until the key is cleared, asks for the
\* candles from the last cached timestamp on, and every row it adds to the
\* entry or changes in it is at or after that timestamp.
LaterFetchFromLastCached ==
    [][ (ret'.op = "get_candles" /\ ret'.interval \in DOMAIN INTERVAL_MAP) =>
          IF <<"^DJI", ret'.interval>> \in DOMAIN cache
          THEN /\ ~ret'.first
               /\ ret'.start = cache[<<"^DJI", ret'.interval>>][Len(cache[<<"^DJI", ret'.interval>>])].ts
               /\ \A i \in 1 .. Len(cache'[<<"^DJI", ret'.interval>>]) :
                     (\/ i > Len(cache[<<"^DJI", ret'.interval>>])
                      \/ cache'[<<"^DJI", ret'.interval>>][i] # cache[<<"^DJI", ret'.interval>>][i])
                        => cache'[<<"^DJI", ret'.interval>>][i].ts >= ret'.start
          ELSE /\ ret'.first
               /\ ret'.start = ret'.now - ClampedLookback(ret'.interval, ret'.lookback) ]_vars

\* A call for a cached key brought candles, asked for from a start later
\* than now - lookback.
LaterCallAskedFromLastCached ==
    /\ ret.op = "get_candles"
    /\ ~ret.first
    /\ ~ret.empty
    /\ ret.raised = ""
    /\ ret.start > ret.now - ClampedLookback(ret.interval, ret.lookback)
    /\ ret.start = cache[RetKey][Len(cache[RetKey]) - ret.grown].ts

(* ------------------------------ the merge ------------------------------ *)
(* The branch of get_candles for a cached key (yfinance_provider.py        *)
(* 91-109) with any entry a first fetch can have stored and any frame the  *)
(* remote can answer with: the merge does not rely on the remote keeping   *)
(* to the start it was asked for.                                          *)

\* The key of the entry the merge is made into.
MergeKey == <<"^DJI", "1m">>

\* An entry is cached and _fetch_yfinance is about to return a frame.
InitMerge ==
    /\ signals = <<>>
    /\ trades = <<>>
    /\ closed_trades = {}
    /\ last_h4_timestamp = [a \in Aliases |-> None]
    /\ emitted = <<>>
    /\ pending = <<>>
    /\ scanner = NewSimpleScanner
    /\ ret = [op |-> "none"]
    /\ \E cached \in History(0, MaxNow) \ {<<>>}, new_data \in History(0, MaxNow) :
        /\ cache = SetItem(<<>>, MergeKey, cached)
        /\ last_fetch = SetItem(<<>>, MergeKey, cached[Len(cached)].ts)
        /\ call = [fn |-> "_fetch_yfinance", start |-> cached[Len(cached)].ts,
                   new_data |-> new_data]

\* get_candles goes on with the frame fetched for the cached key.
MergeFetched ==
    /\ ret.op = "none"
    /\ \E now \in LastClock .. MaxNow :
        \E r \in { LaterFetch(cache, last_fetch, MergeKey, now, call.new_data) } :
            /\ cache' = r.cache
            /\ last_fetch' = r.last_fetch
            /\ ret' = [op |-> "merge", cached |-> cache[MergeKey],
                       new_data |-> call.new_data, data |-> r.data]
    /\ UNCHANGED <<signals, trades, closed_trades, last_h4_timestamp, emitted,
                   call, pending, scanner>>

NextMerge == MergeFetched

SpecMerge == InitMerge /\ [][NextMerge]_vars

\* The rows of a frame.
Rows(frame) == { frame[i] : i \in 1 .. Len(frame) }

\* C32: after get_candles merged a fetched frame into an entry, the entry
\* holds every fetched row as fetched, every cached row whose timestamp was
\* not fetched as cached, no other row, and its timestamps are strictly
\* increasing; the frame returned is the entry.
MergeKeepsNewest ==
    (ret.op = "merge" /\ ret.new_data # <<>>) =>
        /\ Rows(ret.new_data) \subseteq Rows(cache[MergeKey])
        /\ \A row \in Rows(ret.cached) :
              (\A new \in Rows(ret.new_data) : new.ts # row.ts)
                  => row \in Rows(cache[MergeKey])
        /\ Rows(cache[MergeKey]) \subseteq Rows(ret.cached) \cup Rows(ret.new_data)
        /\ StrictlyIncreasing(cache[MergeKey])
        /\ ret.data = cache[MergeKey]

\* A merge met a timestamp in both frames with two values, a timestamp that
\* was only cached, and a fetched timestamp older than a cached one.
MergedOverlapping ==
    /\ ret.op = "merge"
    /\ \E row \in Rows(ret.cached), new \in Rows(ret.new_data) :
          new.ts = row.ts /\ new.v # row.v
    /\ \E row \in Rows(ret.cached) : \A new \in Rows(ret.new_data) : new.ts # row.ts
    /\ \E row \in Rows(ret.cached), new \in Rows(ret.new_data) : new.ts < row.ts

(* --------------------- claims on the TP notification ------------------- *)

\* C33: should_send_tp_notification(trade_id, new_state) is true exactly
\* when new_state is ClosedByTp and the id is not in the closed set, and it
\* is false for every trade of the table whose state is not Open, however
\* the trade was closed.
TpNotificationOnlyFromOpen ==
    \A t \in DOMAIN trades :
        /\ \A new_state \in TradeStateValues :
              should_send_tp_notification(closed_trades, t, new_state)
                  <=> (new_state = "ClosedByTp" /\ t \notin closed_trades)
        /\ trades[t].state # "Open"
              => ~should_send_tp_notification(closed_trades, t, "ClosedByTp")

(* ----------------------- claims on update_sl_tp ------------------------ *)

\* C34: apply_action with an update_sl_tp action on a trade of the table
\* sets the stop loss and the take profit the action gives and leaves every
\* other field, every other trade and the closed set as they were; a trade
\* whose state is not Open keeps its stop loss and take profit.
SlTpUpdatedOnlyWhileOpen ==
    [][ (/\ ret'.op = "apply_action"
         /\ ret'.action.action_type = "update_sl_tp"
         /\ ret'.trade_id \in DOMAIN trades) =>
            /\ DOMAIN trades' = DOMAIN trades
            /\ \A t \in DOMAIN trades : t # ret'.trade_id => trades'[t] = trades[t]
            /\ closed_trades' = closed_trades
            /\ trades'[ret'.trade_id] =
                  [trades[ret'.trade_id] EXCEPT
                      !.stop_loss = IF ret'.action.new_sl # None
                                    THEN ret'.action.new_sl ELSE @,
                      !.take_profit = IF ret'.action.new_tp # None
                                      THEN ret'.action.new_tp ELSE @]
            /\ trades[ret'.trade_id].state # "Open"
                  => trades'[ret'.trade_id] = trades[ret'.trade_id] ]_vars

(* ------------------- claims on refused apply_action calls -------------- *)

\* The action types apply_action has a branch for.
AppliedActionTypes == {"close_by_tp", "close_by_sl", "close_manual", "update_sl_tp"}

\* C35: apply_action with an action of a type it has no branch for, or with
\* a trade id that is in no row of the table, raises and leaves the trades
\* table and the closed set as they were.
RefusedActionChangesNothing ==
    [][ (/\ ret'.op = "apply_action"
         /\ \/ ret'.action.action_type \notin AppliedActionTypes
            \/ ret'.trade_id \notin DOMAIN trades) =>
            /\ ret'.raised # ""
            /\ trades' = trades
            /\ closed_trades' = closed_trades ]_vars

\* A close was asked for a trade id that is in no row while the table held a
\* trade, and it was refused.
CloseOfUnknownTradeRefused ==
    /\ ret.op = "apply_action"
    /\ ret.trade_id \notin DOMAIN trades
    /\ ret.action.action_type = "close_manual"
    /\ ret.raised = "ValueError"
    /\ trades # <<>>
    /\ ret.trade_id \notin closed_trades

(* ------------------- a pass over a failing database -------------------- *)
(* scan_symbol where the commit of create_signal or of create_trade may    *)
(* raise (scanner_service.py 113-168): what is raised leaves the try body  *)
(* for the handler of lines 267-269.                                       *)

\* What the database does in a pass: it commits, or the commit of
\* create_signal or of create_trade raises.
DbOutcomes == {"up", "create_signal", "create_trade"}

\* A pass that hands the signal alert over whatever the database raised.
AlertDespiteFailure(ev, sigs, trs, closed, db) ==
    [signals |-> sigs, trades |-> trs, closed_trades |-> closed,
     last_h4_timestamp |-> ev.last_h4_timestamp, signal_id |-> None,
     checks |-> <<>>,
     alerts |-> <<Alert("signal", Len(sigs) + 1, NoneStr)>>,
     delivered |-> 0,
     log |-> <<Event("evaluate_new_signal", None),
               Event("send_signal_alert", Len(sigs) + 1)>>,
     raised |-> "SQLAlchemyError"]

\* The pass of a signal whose persistence raises: create_signal raised and
\* nothing was stored, or create_signal committed the signal and
\* create_trade raised; nothing after the raising call runs.
PersistenceFailed(ev, sigs, trs, closed, db) ==
    [signals |-> IF db = "create_trade"
                 THEN create_signal(sigs, ev.signal.symbol_alias,
                                    ev.signal.direction,
                                    ev.signal.entry_price_at_signal,
                                    ev.signal.initial_sl, ev.signal.initial_tp)
                 ELSE sigs,
     trades |-> trs, closed_trades |-> closed,
     last_h4_timestamp |-> ev.last_h4_timestamp,
     signal_id |-> IF db = "create_trade" THEN Len(sigs) + 1 ELSE None,
     checks |-> <<>>, alerts |-> <<>>, delivered |-> 0,
     log |-> IF db = "create_trade"
             THEN <<Event("evaluate_new_signal", None),
                    Event("create_signal", Len(sigs) + 1)>>
             ELSE <<Event("evaluate_new_signal", None)>>,
     raised |-> "SQLAlchemyError"]

\* scan_symbol once evaluate_new_signal returned, over a database that may
\* fail.
ScanEvaluatedOver(ev, sigs, trs, closed, ctx, transport, db) ==
    IF ev.signal = NoSignal \/ db = "up"
    THEN ScanEvaluated(ev, sigs, trs, closed, ctx, transport)
    ELSE PersistenceFailed(ev, sigs, trs, closed, db)

\* One pass of scan_symbol whose six get_candles calls return, over a
\* database that may fail.
ScanSymbolOver ==
    \E alias \in Aliases, candle \in Candles, h4_timestamp \in 1 .. MaxTs,
       setup \in Setups, atr \in ScanAtrs, now_utc \in Times,
       transport \in Transports, db \in DbOutcomes :
        /\ h4_timestamp >= last_h4_timestamp[alias]
        /\ \E ctx \in { ScanContext(alias, h4_timestamp, setup, candle, atr, now_utc) } :
            \E ev \in { evaluate_new_signal(last_h4_timestamp, trades, ctx) } :
              \E r \in { ScanEvaluatedOver(ev, signals, trades, closed_trades,
                                           ctx, transport, db) } :
               /\ Len(r.signals) <= MaxSignals
               /\ Len(r.trades) <= MaxTrades
               /\ signals' = r.signals
               /\ trades' = r.trades
               /\ closed_trades' = r.closed_trades
               /\ last_h4_timestamp' = r.last_h4_timestamp
               /\ emitted' = IF r.signal_id # None
                             THEN emitted \cup {<<alias, h4_timestamp>>}
                             ELSE emitted
               /\ ret' = [op |-> "scan_symbol", alias |-> alias,
                          candle_high |-> candle.high,
                          candle_low |-> candle.low,
                          raised |-> r.raised,
                          signal_id |-> r.signal_id,
                          checks |-> r.checks, alerts |-> r.alerts,
                          delivered |-> r.delivered,
                          log |-> Fetched \o r.log,
                          handled |-> ScanExcept(alias, r.raised),
                          signal |-> ev.signal, db |-> db]
        /\ UNCHANGED <<call, cache, last_fetch, pending, scanner>>

NextPersist == ScanSymbolOver

SpecPersist == Init /\ [][NextPersist]_vars

\* The alerts of the kind signal among the alerts of the pass ret reports.
SignalAlerts(r) == { i \in DOMAIN r.alerts : r.alerts[i].kind = "signal" }

\* C36: a pass in which evaluate_new_signal returned a signal appends one
\* row to signals, then one Open row to trades that names it and carries its
\* initial_sl and initial_tp as stop loss and take profit, and after both
\* hands one signal alert for it to the notification service; when
\* create_signal or create_trade raises, the pass hands over no signal
\* alert.  A pass without a signal persists nothing and sends no signal
\* alert.
SignalPersistedBeforeAlert ==
    [][ ret'.op = "scan_symbol" =>
          IF ret'.signal = NoSignal
          THEN signals' = signals /\ Len(trades') = Len(trades)
               /\ SignalAlerts(ret') = {}
          ELSE IF ret'.db = "up"
          THEN /\ Len(signals') = Len(signals) + 1
               /\ Len(trades') = Len(trades) + 1
               /\ trades'[Len(trades')].state = "Open"
               /\ trades'[Len(trades')].signal_id = Len(signals')
               /\ trades'[Len(trades')].stop_loss = signals'[Len(signals')].initial_sl
               /\ trades'[Len(trades')].take_profit = signals'[Len(signals')].initial_tp
               /\ signals'[Len(signals')].initial_sl = ret'.signal.initial_sl
               /\ signals'[Len(signals')].initial_tp = ret'.signal.initial_tp
               /\ Cardinality(SignalAlerts(ret')) = 1
               /\ ret'.alerts[1] = Alert("signal", Len(signals'), NoneStr)
               /\ \E i, j \in DOMAIN ret'.log :
                     /\ ret'.log[i] = Event("create_signal", Len(signals'))
                     /\ ret'.log[j] = Event("create_trade", Len(trades'))
                     /\ i < j
                     /\ \A k \in DOMAIN ret'.log :
                           ret'.log[k].ev = "send_signal_alert" => j < k
          ELSE /\ ret'.raised # ""
               /\ SignalAlerts(ret') = {}
               /\ Len(trades') = Len(trades)
               /\ \A k \in DOMAIN ret'.log : ret'.log[k].ev # "send_signal_alert" ]_vars

\* create_trade raised in a pass after create_signal had committed the
\* signal: the signal is stored, no trade names it, no alert went out.
TradeFailedNoAlert ==
    /\ ret.op = "scan_symbol"
    /\ ret.signal # NoSignal
    /\ ret.db = "create_trade"
    /\ ret.raised = "SQLAlchemyError"
    /\ ret.signal_id = Len(signals)
    /\ \A t \in DOMAIN trades : trades[t].signal_id # ret.signal_id
    /\ ret.alerts = <<>>

(* ------------------- claims on the direction of a move ----------------- *)

\* C37: every move_sl evaluate_adjustment returns puts the stop strictly
\* closer to the profit side than the current stop: above it for a buy,
\* below it for a sell.
MoveSlTightens ==
    (ret.op = "evaluate_adjustment" /\ ret.adjustment.action = "move_sl") =>
        IF call.ctx.direction = "buy"
        THEN ret.adjustment.new_sl > call.ctx.current_sl
        ELSE ret.adjustment.new_sl < call.ctx.current_sl

\* A sell whose stop is already below the entry gets a trail below its
\* stop.
SellTrailedBelowStop ==
    /\ ret.op = "evaluate_adjustment"
    /\ call.ctx.direction = "sell"
    /\ call.ctx.current_sl < call.ctx.entry_price
    /\ ret.adjustment.action = "move_sl"
    /\ ret.adjustment.new_sl < call.ctx.current_sl


\* C38: evaluate_adjustment returns a move_sl only for a trade in profit
\* (buy: the price above the entry; sell: below it), and the new stop is not
\* beyond the current price.
MoveSlOnlyInProfit ==
    (ret.op = "evaluate_adjustment" /\ ret.adjustment.action = "move_sl") =>
        /\ Profit(call.ctx) > 0
        /\ IF call.ctx.direction = "buy"
           THEN ret.adjustment.new_sl <= call.ctx.current_price
           ELSE ret.adjustment.new_sl >= call.ctx.current_price

(* ------------------------ claims on the trade loop --------------------- *)

\* C39: a pass that reaches its loop checks every open trade of its symbol,
\* the one it has just created included, whatever the check or the apply of
\* an earlier trade of the list raised.
EveryOpenTradeChecked ==
    [][ (ret'.op = "scan_symbol" /\ ret'.raised # "DataFetchError") =>
          \A t \in DOMAIN trades' :
              (/\ trades'[t].symbol_alias = ret'.alias
               /\ t \in DOMAIN trades => trades[t].state = "Open") =>
                  \E i \in DOMAIN ret'.checks : ret'.checks[i].trade_id = t ]_vars

====
